---- MODULE Spec2Model ----
(***************************************************************************)
(* Model of the soongo/negotiator package: HTTP content negotiation over   *)
(* the Accept-Charset, Accept-Encoding, Accept-Language and Accept         *)
(* headers.  Header values and candidates are strings; every parser is     *)
(* modelled character by character.  A quality is an integer number of     *)
(* thousandths (QUnit = 1.0), which is exact for the decimal q values the  *)
(* model draws (at most three fraction digits, no exponent, no Inf/NaN).   *)
(* Header values contain no line breaks.                                   *)
(***************************************************************************)
EXTENDS Integers, Sequences, FiniteSets, TLC

VARIABLES
    Header,      \* Negotiator.Header: [isNil, m: stored key -> sequence of values]
    fn,          \* the function called last ("none" before the first call)
    accept,      \* the header value that call negotiated
    provided,    \* the candidate list of that call
    acs,         \* the parsed preference entries of that call
    priorities,  \* the priorities resolved for the candidates of that call
    panicked,    \* TRUE iff that call ended in a runtime panic
    result,      \* the list that call returned (<<>> when it panicked)
    best,        \* the string a scalar accessor returned ("" for the others)
    calls,       \* the calls made on a reused Negotiator, in their order
    release,     \* the Go release the package is built with: it fixes sort.Sort
    rangeOrder   \* the order in which the range loops of that call visited the
                 \* keys of a map ("none": a function that ranges over no map)

vars == <<Header, fn, accept, provided, acs, priorities, panicked, result,
          best, calls, release, rangeOrder>>

-----------------------------------------------------------------------------
(* Strings                                                                 *)

Char(s, i) == SubSeq(s, i, i)

From(s, i) == SubSeq(s, i, Len(s))

UpperLetters == "ABCDEFGHIJKLMNOPQRSTUVWXYZ"

LowerLetters == "abcdefghijklmnopqrstuvwxyz"

Digits == "0123456789"

\* index of the one-character string c in s, 0 when absent (strings.Index + 1)
FirstIndex(s, c) ==
    IF \E i \in 1..Len(s) : Char(s, i) = c
    THEN CHOOSE i \in 1..Len(s) :
            Char(s, i) = c /\ \A j \in 1..(i - 1) : Char(s, j) # c
    ELSE 0

\* upper-case letter -> lower-case letter
LowerOf == [c \in {Char(UpperLetters, k) : k \in 1..Len(UpperLetters)} |->
               Char(LowerLetters, FirstIndex(UpperLetters, c))]

LowerChar(c) == IF c \in DOMAIN LowerOf THEN LowerOf[c] ELSE c

RECURSIVE ToLower(_)
ToLower(s) ==
    IF s = "" THEN "" ELSE LowerChar(Char(s, 1)) \o ToLower(From(s, 2))

\* strings.Split(s, sep) for a one-character separator
RECURSIVE Split(_, _)
Split(s, sep) ==
    LET cut(k) == IF k = 0 THEN <<s>>
                  ELSE <<SubSeq(s, 1, k - 1)>> \o Split(From(s, k + 1), sep)
    IN  cut(FirstIndex(s, sep))

\* strings.Join(parts, sep)
RECURSIVE Join(_, _)
Join(parts, sep) ==
    IF Len(parts) = 0 THEN ""
    ELSE IF Len(parts) = 1 THEN parts[1]
    ELSE parts[1] \o sep \o Join(Tail(parts), sep)

\* strings.Trim(s, " ")
Trim(s) ==
    LET span(nonSpace) ==
            IF nonSpace = {} THEN ""
            ELSE SubSeq(s, CHOOSE i \in nonSpace : \A j \in nonSpace : i <= j,
                           CHOOSE i \in nonSpace : \A j \in nonSpace : i >= j)
    IN  span({i \in 1..Len(s) : Char(s, i) # " "})

\* strings.Count(s, "\"")
quoteCount(s) == Cardinality({i \in 1..Len(s) : Char(s, i) = "\""})

\* the regular expression class \s, over the characters header values hold
IsSpace(c) == c \in {" ", "\t"}

\* first position >= i of s holding a character of stops, Len(s)+1 if none:
\* the end of the greedy run [^stops]+ that starts at i
RunEnd(s, i, stops) ==
    CHOOSE k \in i..(Len(s) + 1) :
        /\ k = Len(s) + 1 \/ Char(s, k) \in stops
        /\ \A j \in i..(k - 1) : Char(s, j) \notin stops

\* first position >= i of s holding a non-space character: the end of \s*
SkipSpace(s, i) ==
    CHOOSE k \in i..(Len(s) + 1) :
        /\ k = Len(s) + 1 \/ ~IsSpace(Char(s, k))
        /\ \A j \in i..(k - 1) : IsSpace(Char(s, j))

-----------------------------------------------------------------------------
(* Qualities: strconv.ParseFloat(s, 64) on decimal numerals                 *)

QUnit == 10 * 10 * 10

DigitVal(c) == FirstIndex(Digits, c) - 1

AllDigits(s) == \A i \in 1..Len(s) : FirstIndex(Digits, Char(s, i)) # 0

RECURSIVE IntOf(_)
IntOf(s) ==
    IF s = "" THEN 0
    ELSE 10 * IntOf(SubSeq(s, 1, Len(s) - 1)) + DigitVal(Char(s, Len(s)))

RECURSIVE Pow10(_)
Pow10(n) == IF n = 0 THEN 1 ELSE 10 * Pow10(n - 1)

\* [ok |-> the numeral is well formed, v |-> its value in thousandths]
ParseFloat(s) ==
    LET signedBy(negative, mag) ==
            [ok |-> TRUE, v |-> IF negative THEN 0 - mag ELSE mag]
        value(negative, whole, frac) ==
            IF AllDigits(whole) /\ AllDigits(frac) /\ Len(whole) + Len(frac) > 0
            THEN signedBy(negative,
                          IntOf(whole) * QUnit
                              + (IntOf(frac) * QUnit) \div Pow10(Len(frac)))
            ELSE [ok |-> FALSE, v |-> 0]
        parts(negative, body, dot) ==
            value(negative,
                  IF dot = 0 THEN body ELSE SubSeq(body, 1, dot - 1),
                  IF dot = 0 THEN "" ELSE From(body, dot + 1))
        numeral(negative, body) == parts(negative, body, FirstIndex(body, "."))
    IN  IF s # "" /\ Char(s, 1) \in {"+", "-"}
        THEN numeral(Char(s, 1) = "-", From(s, 2))
        ELSE numeral(FALSE, s)

-----------------------------------------------------------------------------
(* The specificity of a match, and the outcome of parsing one segment      *)

\* type specificity struct { i, o int; q float64; s int }
specificity(i, o, q, s) == [i |-> i, o |-> o, q |-> q, s |-> s]

\* priority := specificity{o: -1, q: 0, s: 0}: the candidate index i is left 0
NoPriority == [i |-> 0, o |-> 0 - 1, q |-> 0, s |-> 0]

\* a parser returns an entry, nil, or does not return (index out of range)
Entry(e) == [st |-> "ok", e |-> e]

Nil == [st |-> "nil"]

Panic == [st |-> "panic"]

\* The parameter loop shared by parseCharset, parseEncoding and parseLanguage:
\*   p := strings.Split(strings.Trim(params[j], " "), "=")
\*   if p[0] == "q" { q1, err := strconv.ParseFloat(p[1], 64) ... break }
\* [st |-> "ok", q |-> quality] / [st |-> "nil"] (ParseFloat failed) /
\* [st |-> "panic"] (p[1] read from a one-element p)
RECURSIVE scanQ(_, _)
scanQ(params, j) ==
    LET quality(f) == IF f.ok THEN [st |-> "ok", q |-> f.v] ELSE Nil
        param(p) ==
            IF p[1] = "q"
            THEN IF Len(p) < 2 THEN Panic ELSE quality(ParseFloat(p[2]))
            ELSE scanQ(params, j + 1)
    IN  IF j > Len(params) THEN [st |-> "ok", q |-> QUnit]
        ELSE param(Split(Trim(params[j]), "="))

\* the quality of a parameter string (regexp group "(?:;(.*))?"; "" = no group)
qualityOf(paramStr) ==
    IF paramStr = "" THEN [st |-> "ok", q |-> QUnit]
    ELSE scanQ(Split(paramStr, ";"), 1)

\* "^\s*([^\s;]+)\s*(?:;(.*))?$" (simpleCharsetRegExp, simpleEncodingRegExp)
simpleTokenMatch(s) ==
    LET groups(a, b, c) ==
            IF b = a THEN [ok |-> FALSE]
            ELSE IF c = Len(s) + 1
                 THEN [ok |-> TRUE, g1 |-> SubSeq(s, a, b - 1), g2 |-> ""]
            ELSE IF Char(s, c) = ";"
                 THEN [ok |-> TRUE, g1 |-> SubSeq(s, a, b - 1), g2 |-> From(s, c + 1)]
            ELSE [ok |-> FALSE]
        token(a, b) == groups(a, b, SkipSpace(s, b))
        start(a) == token(a, RunEnd(s, a, {" ", "\t", ";"}))
    IN  start(SkipSpace(s, 1))

-----------------------------------------------------------------------------
(* Sorting.  sort.Sort is modelled for slices of up to 13 elements, as     *)
(* each release of Go has it; the variable release says which.  From Go    *)
(* 1.19 on it is the pattern-defeating quicksort: up to 12 elements a      *)
(* plain insertion sort; 13 elements are partitioned once around a pivot   *)
(* and the two sides, of at most 12 elements, insertion sorted.  Up to Go  *)
(* 1.18 it is quickSort: up to 12 elements a pass with gap 6 and the same  *)
(* insertion sort; 13 elements are split once by doPivot.  The comparators *)
(* of the package are no strict orders, so the two can return different    *)
(* lists from 7 elements on.                                               *)

charsetEntryLess(ac1, ac2) == ac1.q > ac2.q \/ ac1.i < ac2.i

mediaTypeEntryLess(ac1, ac2) == ac1.q > ac2.q \/ ac1.i < ac2.i

encodingEntryLess(ac1, ac2) == IF ac1.q # ac2.q THEN ac1.q > ac2.q ELSE ac1.i < ac2.i

languageEntryLess(ac1, ac2) == IF ac1.q # ac2.q THEN ac1.q > ac2.q ELSE ac1.i < ac2.i

charsetSpecLess(s1, s2) == s1.q > s2.q \/ s1.s < s2.s \/ s1.o < s2.o \/ s1.i < s2.i

mediaTypeSpecLess(s1, s2) == s1.q > s2.q \/ s1.s < s2.s \/ s1.o < s2.o \/ s1.i < s2.i

\* compareSpecs is called by PreferredLanguages and PreferredEncodings; its
\* definition is in none of the source files.  Modelled from the design text:
\* quality descending, then specificity bits ascending, then matched-entry
\* order ascending, then candidate order ascending.
compareSpecs(s1, s2) ==
    IF s1.q # s2.q THEN s1.q > s2.q
    ELSE IF s1.s # s2.s THEN s1.s < s2.s
    ELSE IF s1.o # s2.o THEN s1.o < s2.o
    ELSE s1.i < s2.i

Less(by, a, b) ==
    CASE by = "charsetEntry"   -> charsetEntryLess(a, b)
      [] by = "mediaTypeEntry" -> mediaTypeEntryLess(a, b)
      [] by = "encodingEntry"  -> encodingEntryLess(a, b)
      [] by = "languageEntry"  -> languageEntryLess(a, b)
      [] by = "charsetSpec"    -> charsetSpecLess(a, b)
      [] by = "mediaTypeSpec"  -> mediaTypeSpecLess(a, b)
      [] by = "compareSpecs"   -> compareSpecs(a, b)

Swap(seq, i, j) == [seq EXCEPT ![i] = seq[j], ![j] = seq[i]]

\* for j := i; j > a && data.Less(j, j-1); j-- { data.Swap(j, j-1) }
RECURSIVE sink(_, _, _)
sink(by, seq, j) ==
    IF j > 1 /\ Less(by, seq[j], seq[j - 1])
    THEN sink(by, Swap(seq, j, j - 1), j - 1)
    ELSE seq

RECURSIVE insertionSort(_, _, _)
insertionSort(by, seq, i) ==
    IF i > Len(seq) THEN seq ELSE insertionSort(by, sink(by, seq, i), i + 1)

\* sortBy with a plausible slip: the slice is returned as it came
sortByNothing(by, seq) == seq

\* order2 of choosePivot: the two positions, that of the lesser element first
order2(by, data, a, b) == IF Less(by, data[b], data[a]) THEN <<b, a>> ELSE <<a, b>>

\* choosePivot on 8 to 49 elements: the position of the median of the
\* elements at the three quarter positions, and the hint "increasing" (none
\* of the three order2 steps swapped)
choosePivot(by, data) ==
    LET third(a, b, swaps) ==
            [pivot |-> order2(by, data, a, b)[2],
             increasing |-> swaps = 0 /\ order2(by, data, a, b) = <<a, b>>]
        second(ab, k, swaps) ==
            third(ab[1], order2(by, data, ab[2], k)[1],
                  swaps + (IF order2(by, data, ab[2], k) = <<ab[2], k>> THEN 0 ELSE 1))
        first(i, j, k) ==
            second(order2(by, data, i, j), k,
                   IF order2(by, data, i, j) = <<i, j>> THEN 0 ELSE 1)
    IN  first((Len(data) \div 4) + 1, (Len(data) \div 4) * 2 + 1,
              (Len(data) \div 4) * 3 + 1)

\* partialInsertionSort on fewer than 50 elements moves nothing: it reports
\* whether no element is less than the one before it
partialInsertionSort(by, data) ==
    \A i \in 2..Len(data) : ~Less(by, data[i], data[i - 1])

\* for i <= j && data.Less(i, a) { i++ }, the pivot being at the first position
RECURSIVE scanUp(_, _, _, _)
scanUp(by, data, i, j) ==
    IF i <= j /\ Less(by, data[i], data[1]) THEN scanUp(by, data, i + 1, j) ELSE i

\* for i <= j && !data.Less(j, a) { j-- }
RECURSIVE scanDown(_, _, _, _)
scanDown(by, data, i, j) ==
    IF i <= j /\ ~Less(by, data[j], data[1]) THEN scanDown(by, data, i, j - 1) ELSE j

\* the rounds of partition, from the bounds i, j on: [data, mid]
RECURSIVE partitionFrom(_, _, _, _)
partitionFrom(by, data, i, j) ==
    LET crossed(i2, j2) ==
            IF i2 > j2 THEN [data |-> Swap(data, j2, 1), mid |-> j2]
            ELSE partitionFrom(by, Swap(data, i2, j2), i2 + 1, j2 - 1)
        up(i2) == crossed(i2, scanDown(by, data, i2, j))
    IN  up(scanUp(by, data, i, j))

\* partition of the whole slice around the element at position pivot: the
\* pivot goes to the front, the elements less than it in front of the rest,
\* the pivot between them
partition(by, data, pivot) == partitionFrom(by, Swap(data, 1, pivot), 2, Len(data))

\* pdqsort on 13 elements: one partition, then each side is insertion sorted
pdqsort(by, data) ==
    LET sides(p) ==
            insertionSort(by, SubSeq(p.data, 1, p.mid - 1), 2)
                \o <<p.data[p.mid]>>
                \o insertionSort(by, SubSeq(p.data, p.mid + 1, Len(p.data)), 2)
        around(c) ==
            IF c.increasing /\ partialInsertionSort(by, data) THEN data
            ELSE sides(partition(by, data, c.pivot))
    IN  around(choosePivot(by, data))

\* medianOfThree: the median of the three elements goes to position m1
medianOfThree(by, data, m1, m0, m2) ==
    LET third(d) == IF Less(by, d[m1], d[m0]) THEN Swap(d, m1, m0) ELSE d
        second(d) == IF Less(by, d[m2], d[m1]) THEN third(Swap(d, m2, m1)) ELSE d
        first(d) == second(IF Less(by, d[m1], d[m0]) THEN Swap(d, m1, m0) ELSE d)
    IN  first(data)

\* doPivot on the whole slice, of 13 to 23 elements (no ninther, and the test
\* for duplicates of the pivot is not reached): [data, mlo, mhi], the
\* elements before the pivot being data[1..mlo], those after it
\* data[mhi + 1..Len(data)].  The positions a, b, c are those of the source
\* plus one.
doPivot(by, data) ==
    LET RECURSIVE up(_, _, _)
        \* for ; a < c && data.Less(a, pivot); a++ {}
        up(d, a, c) == IF a < c /\ Less(by, d[a], d[1]) THEN up(d, a + 1, c) ELSE a
        RECURSIVE upEqual(_, _, _)
        \* for ; b < c && !data.Less(pivot, b); b++ {}
        upEqual(d, b, c) ==
            IF b < c /\ ~Less(by, d[1], d[b]) THEN upEqual(d, b + 1, c) ELSE b
        RECURSIVE down(_, _, _)
        \* for ; b < c && data.Less(pivot, c-1); c-- {}
        down(d, b, c) ==
            IF b < c /\ Less(by, d[1], d[c - 1]) THEN down(d, b, c - 1) ELSE c
        RECURSIVE downEqual(_, _, _)
        \* for ; a < b && !data.Less(b-1, pivot); b-- {}
        downEqual(d, a, b) ==
            IF a < b /\ ~Less(by, d[b - 1], d[1]) THEN downEqual(d, a, b - 1) ELSE b
        RECURSIVE split(_, _, _)
        \* the loop that moves the elements greater than the pivot to the back
        split(d, b, c) ==
            LET crossed(b2, c2) ==
                    IF b2 >= c2 THEN [data |-> d, b |-> b2, c |-> c2]
                    ELSE split(Swap(d, b2, c2 - 1), b2 + 1, c2 - 1)
                scanned(b2) == crossed(b2, down(d, b2, c))
            IN  scanned(upEqual(d, b, c))
        RECURSIVE protect(_, _, _)
        \* the loop that moves the elements equal to the pivot next to it
        protect(d, a, b) ==
            LET crossed(b2, a2) ==
                    IF a2 >= b2 THEN [data |-> d, b |-> b2]
                    ELSE protect(Swap(d, a2, b2 - 1), a2 + 1, b2 - 1)
                scanned(b2) == crossed(b2, up(d, a, b2))
            IN  scanned(downEqual(d, a, b))
        done(r, c) ==
            [data |-> Swap(r.data, 1, r.b - 1), mlo |-> r.b - 2, mhi |-> c - 1]
        \* protect := hi-c < 5
        guarded(r, a) ==
            IF Len(data) - (r.c - 1) < 5 THEN done(protect(r.data, a, r.b), r.c)
            ELSE done(r, r.c)
        from(d, a) == guarded(split(d, a, Len(d)), a)
        pivoted(d) == from(d, up(d, 2, Len(d)))
    IN  pivoted(medianOfThree(by, data, 1, (Len(data) \div 2) + 1, Len(data)))

\* the pass with gap 6 over a slice of at most 12 elements, from position i on
RECURSIVE shellPass(_, _, _)
shellPass(by, data, i) ==
    IF i > Len(data) THEN data
    ELSE shellPass(by, IF Less(by, data[i], data[i - 6])
                       THEN Swap(data, i, i - 6) ELSE data, i + 1)

\* quickSort, the sort.Sort of Go 1.18 and earlier, on at most 13 elements:
\* a slice of at most 12 elements gets the pass with gap 6 and the insertion
\* sort; a slice of 13 is split by doPivot and each side sorted in that way
quickSort(by, data) ==
    LET short(d) == insertionSort(by, shellPass(by, d, 7), 2)
        sides(p) ==
            short(SubSeq(p.data, 1, p.mlo))
                \o SubSeq(p.data, p.mlo + 1, p.mhi)
                \o short(SubSeq(p.data, p.mhi + 1, Len(p.data)))
    IN  IF Len(data) <= 12 THEN short(data) ELSE sides(doPivot(by, data))

\* the releases of Go: sort.Sort is quickSort up to Go 1.18 and pdqsort from
\* Go 1.19 on
Releases == {"go1.18", "go1.19"}

\* sort.Sort as the release in use has it, on at most 13 elements
sortBy(by, seq) ==
    IF release = "go1.18" THEN quickSort(by, seq)
    ELSE IF Len(seq) <= 12 THEN insertionSort(by, seq, 2)
    ELSE pdqsort(by, seq)

\* isAcceptCharsetQuality, isAcceptEncodingQuality, isAcceptLanguageQuality,
\* isAcceptMediaTypeQuality: ac.q > 0
isAcceptQuality(ac) == ac.q > 0

\* isSpecificityQuality with a plausible slip: >= for >
isSpecificityQualityOrZero(s) == s.q >= 0

isSpecificityQuality(s) == s.q > 0

\* the filter methods keep the elements that satisfy the predicate, in order
filterEntries(entries) == SelectSeq(entries, isAcceptQuality)

filterSpecs(ss) == SelectSeq(ss, isSpecificityQuality)

\* indexOf with a plausible slip: the qualities are compared, not the structs
indexOfByQuality(ss, v) ==
    IF \E k \in 1..Len(ss) : ss[k].q = v.q
    THEN (CHOOSE k \in 1..Len(ss) :
             ss[k].q = v.q /\ \A j \in 1..(k - 1) : ss[j].q # v.q) - 1
    ELSE 0 - 1

\* specificities.indexOf: 0-based index of the first element equal to v, or -1
indexOf(ss, v) ==
    IF \E k \in 1..Len(ss) : ss[k] = v
    THEN (CHOOSE k \in 1..Len(ss) : ss[k] = v /\ \A j \in 1..(k - 1) : ss[j] # v) - 1
    ELSE 0 - 1

\* results := ...; for _, v := range filteredPriorities { i := priorities.indexOf(v);
\* if i >= 0 { results = append(results, provided[i]) } }
RECURSIVE project(_, _, _)
project(sorted, prios, prov) ==
    LET pick(i) == IF i >= 0 THEN <<prov[i + 1]>> ELSE <<>>
    IN  IF sorted = <<>> THEN <<>>
        ELSE pick(indexOf(prios, Head(sorted))) \o project(Tail(sorted), prios, prov)

\* the outcome of a parseAccept* loop over the split segments: the entries
\* appended in order, or a panic when some segment's parse panics
RECURSIVE collect(_)
collect(parsed) ==
    LET append(first, rest) ==
            IF first.st = "panic" \/ rest.st = "panic" THEN Panic
            ELSE [st |-> "ok",
                  es |-> (IF first.st = "ok" THEN <<first.e>> ELSE <<>>) \o rest.es]
    IN  IF parsed = <<>> THEN [st |-> "ok", es |-> <<>>]
        ELSE append(Head(parsed), collect(Tail(parsed)))

-----------------------------------------------------------------------------
(* Charsets                                                                *)

parseCharset(s, i) ==
    LET entry(m, r) ==
            IF r.st = "ok" THEN Entry([charset |-> m.g1, q |-> r.q, i |-> i]) ELSE r
        matched(m) == IF ~m.ok THEN Nil ELSE entry(m, qualityOf(m.g2))
    IN  matched(simpleTokenMatch(s))

parseAcceptCharset(a) ==
    LET each(accepts) ==
            collect([k \in 1..Len(accepts) |-> parseCharset(Trim(accepts[k]), k - 1)])
    IN  each(Split(a, ","))

\* nil is [st |-> "nil"]

\* a variant in which the wildcard entry matches nothing but itself
charsetSpecifyExact(charset, ac, index) ==
    IF ToLower(ac.charset) = ToLower(charset)
    THEN Entry(specificity(index, ac.i, ac.q, 1))
    ELSE Nil

charsetSpecify(charset, ac, index) ==
    IF ToLower(ac.charset) = ToLower(charset)
    THEN Entry(specificity(index, ac.i, ac.q, 1))
    ELSE IF ac.charset # "*" THEN Nil
    ELSE Entry(specificity(index, ac.i, ac.q, 0))

\* better with a plausible slip: && for ||
betterInAll(priority, spec) ==
    IF priority.s - spec.s < 0 /\ priority.q - spec.q < 0 /\ priority.o - spec.o < 0
    THEN spec
    ELSE priority

\* the running best of get*Priority after one more spec
better(priority, spec) ==
    IF priority.s - spec.s < 0 \/ priority.q - spec.q < 0 \/ priority.o - spec.o < 0
    THEN spec
    ELSE priority

RECURSIVE charsetPriorityFrom(_, _, _, _, _)
charsetPriorityFrom(charset, entries, index, k, priority) ==
    LET after(spec) ==
            charsetPriorityFrom(charset, entries, index, k + 1,
                IF spec.st = "ok" THEN better(priority, spec.e) ELSE priority)
    IN  IF k > Len(entries) THEN priority
        ELSE after(charsetSpecify(charset, entries[k], index))

getCharsetPriority(charset, entries, index) ==
    charsetPriorityFrom(charset, entries, index, 1, NoPriority)

getCharsetSpecificities(types, entries) ==
    [k \in 1..Len(types) |-> getCharsetPriority(types[k], entries, k - 1)]

toCharsets(entries) == [k \in 1..Len(entries) |-> entries[k].charset]

\* [panicked, acs, priorities, result] of PreferredCharsets(a, prov...)
PreferredCharsets(a, prov) ==
    LET ranked(parsed, prios) ==
            [panicked |-> FALSE, acs |-> parsed.es, priorities |-> prios,
             result |-> project(sortBy("charsetSpec", filterSpecs(prios)), prios, prov)]
        negotiated(parsed) ==
            IF parsed.st = "panic"
            THEN [panicked |-> TRUE, acs |-> <<>>, priorities |-> <<>>, result |-> <<>>]
            ELSE IF Len(prov) = 0
            THEN [panicked |-> FALSE, acs |-> parsed.es, priorities |-> <<>>,
                  result |-> toCharsets(sortBy("charsetEntry", filterEntries(parsed.es)))]
            ELSE ranked(parsed, getCharsetSpecificities(prov, parsed.es))
    IN  negotiated(parseAcceptCharset(a))

-----------------------------------------------------------------------------
(* Encodings                                                               *)

parseEncoding(s, i) ==
    LET entry(m, r) ==
            IF r.st = "ok" THEN Entry([encoding |-> m.g1, q |-> r.q, i |-> i]) ELSE r
        matched(m) == IF ~m.ok THEN Nil ELSE entry(m, qualityOf(m.g2))
    IN  matched(simpleTokenMatch(s))

encodingSpecify(encoding, ac, index) ==
    IF ToLower(ac.encoding) = ToLower(encoding)
    THEN Entry(specificity(index, ac.i, ac.q, 1))
    ELSE IF ac.encoding # "*" THEN Nil
    ELSE Entry(specificity(index, ac.i, ac.q, 0))

\* hasIdentity with a plausible slip: only an exact identity entry counts
hasIdentityExact(entries) ==
    \E k \in 1..Len(entries) : ToLower(entries[k].encoding) = "identity"

\* hasIdentity after the loop of parseAcceptEncoding
hasIdentity(entries) ==
    \E k \in 1..Len(entries) : encodingSpecify("identity", entries[k], 0).st = "ok"

\* minQuality after the loop of parseAcceptEncoding: math.Min from 1.0 on
RECURSIVE minQuality(_)
minQuality(entries) ==
    LET least(q, m) == IF q < m THEN q ELSE m
    IN  IF entries = <<>> THEN QUnit
        ELSE least(Head(entries).q, minQuality(Tail(entries)))

parseAcceptEncoding(a) ==
    LET withIdentity(accepts, parsed) ==
            IF parsed.st = "panic" THEN Panic
            ELSE IF hasIdentity(parsed.es) THEN parsed
            ELSE [st |-> "ok",
                  es |-> Append(parsed.es, [encoding |-> "identity",
                                            q |-> minQuality(parsed.es),
                                            i |-> Len(accepts)])]
        each(accepts) ==
            withIdentity(accepts,
                collect([k \in 1..Len(accepts) |->
                            parseEncoding(Trim(accepts[k]), k - 1)]))
    IN  each(Split(a, ","))

RECURSIVE encodingPriorityFrom(_, _, _, _, _)
encodingPriorityFrom(encoding, entries, index, k, priority) ==
    LET after(spec) ==
            encodingPriorityFrom(encoding, entries, index, k + 1,
                IF spec.st = "ok" THEN better(priority, spec.e) ELSE priority)
    IN  IF k > Len(entries) THEN priority
        ELSE after(encodingSpecify(encoding, entries[k], index))

getEncodingPriority(encoding, entries, index) ==
    encodingPriorityFrom(encoding, entries, index, 1, NoPriority)

getEncodingSpecificities(types, entries) ==
    [k \in 1..Len(types) |-> getEncodingPriority(types[k], entries, k - 1)]

toEncodings(entries) == [k \in 1..Len(entries) |-> entries[k].encoding]

PreferredEncodings(a, prov) ==
    LET ranked(parsed, prios) ==
            [panicked |-> FALSE, acs |-> parsed.es, priorities |-> prios,
             result |-> project(sortBy("compareSpecs", filterSpecs(prios)), prios, prov)]
        negotiated(parsed) ==
            IF parsed.st = "panic"
            THEN [panicked |-> TRUE, acs |-> <<>>, priorities |-> <<>>, result |-> <<>>]
            ELSE IF Len(prov) = 0
            THEN [panicked |-> FALSE, acs |-> parsed.es, priorities |-> <<>>,
                  result |-> toEncodings(sortBy("encodingEntry", filterEntries(parsed.es)))]
            ELSE ranked(parsed, getEncodingSpecificities(prov, parsed.es))
    IN  negotiated(parseAcceptEncoding(a))

-----------------------------------------------------------------------------
(* Languages                                                               *)

\* "^\s*([^\s\-;]+)(?:-([^\s;]+))?\s*(?:;(.*))?$" (simpleLanguageRegExp)
languageMatch(s) ==
    LET groups(a, b, d, g2) ==
            IF b = a THEN [ok |-> FALSE]
            ELSE IF d = Len(s) + 1
                 THEN [ok |-> TRUE, g1 |-> SubSeq(s, a, b - 1), g2 |-> g2, g3 |-> ""]
            ELSE IF Char(s, d) = ";"
                 THEN [ok |-> TRUE, g1 |-> SubSeq(s, a, b - 1), g2 |-> g2,
                       g3 |-> From(s, d + 1)]
            ELSE [ok |-> FALSE]
        \* c = b when no "-" follows the primary tag; the optional group
        \* matches only a non-empty subtag
        subtag(a, b, c) ==
            IF c > b + 1
            THEN groups(a, b, SkipSpace(s, c), SubSeq(s, b + 1, c - 1))
            ELSE groups(a, b, SkipSpace(s, b), "")
        primary(a, b) ==
            subtag(a, b, IF b <= Len(s) /\ Char(s, b) = "-"
                         THEN RunEnd(s, b + 1, {" ", "\t", ";"}) ELSE b)
        start(a) == primary(a, RunEnd(s, a, {" ", "\t", "-", ";"}))
    IN  start(SkipSpace(s, 1))

parseLanguage(s, i) ==
    LET entry(m, r) ==
            IF r.st = "ok"
            THEN Entry([prefix |-> m.g1, suffix |-> m.g2,
                        full |-> IF m.g2 # "" THEN m.g1 \o "-" \o m.g2 ELSE m.g1,
                        q |-> r.q, i |-> i])
            ELSE r
        matched(m) == IF ~m.ok THEN Nil ELSE entry(m, qualityOf(m.g3))
    IN  matched(languageMatch(s))

parseAcceptLanguage(a) ==
    LET each(accepts) ==
            collect([k \in 1..Len(accepts) |-> parseLanguage(Trim(accepts[k]), k - 1)])
    IN  each(Split(a, ","))

\* an entry, nil, or a panic (the candidate is parsed by parseLanguage)

\* a variant that matches the full tags and the wildcard only
languageSpecifyExact(language, ac, index) ==
    LET candidate(p) ==
            IF p.st # "ok" THEN p
            ELSE IF ToLower(ac.full) = ToLower(p.e.full)
                 THEN Entry(specificity(index, ac.i, ac.q, 4))
            ELSE IF ac.full # "*" THEN Nil
            ELSE Entry(specificity(index, ac.i, ac.q, 0))
    IN  candidate(parseLanguage(language, index))

\* a variant with the bits of the two cross matches exchanged
languageSpecifyExchanged(language, ac, index) ==
    LET candidate(p) ==
            IF p.st # "ok" THEN p
            ELSE IF ToLower(ac.full) = ToLower(p.e.full)
                 THEN Entry(specificity(index, ac.i, ac.q, 4))
            ELSE IF ToLower(ac.prefix) = ToLower(p.e.full)
                 THEN Entry(specificity(index, ac.i, ac.q, 1))
            ELSE IF ToLower(ac.full) = ToLower(p.e.prefix)
                 THEN Entry(specificity(index, ac.i, ac.q, 2))
            ELSE IF ac.full # "*" THEN Nil
            ELSE Entry(specificity(index, ac.i, ac.q, 0))
    IN  candidate(parseLanguage(language, index))

languageSpecify(language, ac, index) ==
    LET candidate(p) ==
            IF p.st # "ok" THEN p
            ELSE IF ToLower(ac.full) = ToLower(p.e.full)
                 THEN Entry(specificity(index, ac.i, ac.q, 4))
            ELSE IF ToLower(ac.prefix) = ToLower(p.e.full)
                 THEN Entry(specificity(index, ac.i, ac.q, 2))
            ELSE IF ToLower(ac.full) = ToLower(p.e.prefix)
                 THEN Entry(specificity(index, ac.i, ac.q, 1))
            ELSE IF ac.full # "*" THEN Nil
            ELSE Entry(specificity(index, ac.i, ac.q, 0))
    IN  candidate(parseLanguage(language, index))

\* [st |-> "ok", e |-> priority] or a panic
RECURSIVE languagePriorityFrom(_, _, _, _, _)
languagePriorityFrom(language, entries, index, k, priority) ==
    LET after(spec) ==
            IF spec.st = "panic" THEN Panic
            ELSE languagePriorityFrom(language, entries, index, k + 1,
                     IF spec.st = "ok" THEN better(priority, spec.e) ELSE priority)
    IN  IF k > Len(entries) THEN Entry(priority)
        ELSE after(languageSpecify(language, entries[k], index))

getLanguagePriority(language, entries, index) ==
    languagePriorityFrom(language, entries, index, 1, NoPriority)

\* [st |-> "ok", es |-> priorities] or a panic
getLanguageSpecificities(types, entries) ==
    LET all(each) ==
            IF \E k \in 1..Len(types) : each[k].st = "panic" THEN Panic
            ELSE [st |-> "ok", es |-> [k \in 1..Len(types) |-> each[k].e]]
    IN  all([k \in 1..Len(types) |-> getLanguagePriority(types[k], entries, k - 1)])

toLanguages(entries) == [k \in 1..Len(entries) |-> entries[k].full]

PreferredLanguages(a, prov) ==
    LET ranked(parsed, prios) ==
            IF prios.st = "panic"
            THEN [panicked |-> TRUE, acs |-> parsed.es, priorities |-> <<>>,
                  result |-> <<>>]
            ELSE [panicked |-> FALSE, acs |-> parsed.es, priorities |-> prios.es,
                  result |-> project(sortBy("compareSpecs", filterSpecs(prios.es)),
                                     prios.es, prov)]
        negotiated(parsed) ==
            IF parsed.st = "panic"
            THEN [panicked |-> TRUE, acs |-> <<>>, priorities |-> <<>>, result |-> <<>>]
            ELSE IF Len(prov) = 0
            THEN [panicked |-> FALSE, acs |-> parsed.es, priorities |-> <<>>,
                  result |-> toLanguages(sortBy("languageEntry", filterEntries(parsed.es)))]
            ELSE ranked(parsed, getLanguageSpecificities(prov, parsed.es))
    IN  negotiated(parseAcceptLanguage(a))

-----------------------------------------------------------------------------
(* Media types                                                             *)

\* The loop shared by splitMediaTypes and splitParameters: piece i is committed
\* as a new element when the element being accumulated holds an even number
\* of quotes, and is glued to it (with the separator) otherwise.
RECURSIVE mergeQuoted(_, _, _, _, _)
mergeQuoted(parts, sep, done, cur, i) ==
    IF i > Len(parts) THEN Append(done, cur)
    ELSE IF quoteCount(cur) % 2 = 0
         THEN mergeQuoted(parts, sep, Append(done, cur), parts[i], i + 1)
         ELSE mergeQuoted(parts, sep, done, cur \o sep \o parts[i], i + 1)


\* a variant that splits at every comma
splitAtCommas(a) == Split(a, ",")

splitMediaTypes(a) ==
    LET merge(accepts) == mergeQuoted(accepts, ",", <<>>, accepts[1], 2)
    IN  merge(Split(a, ","))

splitParameters(str) ==
    LET trimmed(merged) == [k \in 1..Len(merged) |-> Trim(merged[k])]
        merge(parameters) == trimmed(mergeQuoted(parameters, ";", <<>>, parameters[1], 2))
    IN  merge(Split(str, ";"))

splitKeyValuePair(s) ==
    LET pair(index) ==
            IF index = 0 THEN <<s, "">>
            ELSE <<SubSeq(s, 1, index - 1), From(s, index + 1)>>
    IN  pair(FirstIndex(s, "="))

\* val[1:int(math.Max(float64(len(val)-1), 1))] when val is quoted
unquote(val) ==
    IF val # "" /\ Char(val, 1) = "\"" /\ Char(val, Len(val)) = "\""
    THEN SubSeq(val, 2, IF Len(val) - 1 > 1 THEN Len(val) - 1 ELSE 1)
    ELSE val

\* "^\s*([^\s\/;]+)\/([^;\s]+)\s*(?:;(.*))?$" (simpleMediaTypeRegExp)
mediaTypeMatch(s) ==
    LET slashAt(b) == b <= Len(s) /\ Char(s, b) = "/"
        groups(a, b, c, d) ==
            IF b = a \/ ~slashAt(b) \/ c = b + 1 THEN [ok |-> FALSE]
            ELSE IF d = Len(s) + 1
                 THEN [ok |-> TRUE, g1 |-> SubSeq(s, a, b - 1),
                       g2 |-> SubSeq(s, b + 1, c - 1), g3 |-> ""]
            ELSE IF Char(s, d) = ";"
                 THEN [ok |-> TRUE, g1 |-> SubSeq(s, a, b - 1),
                       g2 |-> SubSeq(s, b + 1, c - 1), g3 |-> From(s, d + 1)]
            ELSE [ok |-> FALSE]
        subtype(a, b, c) == groups(a, b, c, SkipSpace(s, c))
        mainType(a, b) ==
            subtype(a, b, IF slashAt(b) THEN RunEnd(s, b + 1, {" ", "\t", ";"}) ELSE b)
        start(a) == mainType(a, RunEnd(s, a, {" ", "\t", "/", ";"}))
    IN  start(SkipSpace(s, 1))

\* params[key] = val
mapPut(m, key, val) == [k \in (DOMAIN m) \cup {key} |-> IF k = key THEN val ELSE m[k]]

\* p.params[k] of a Go map: the zero value "" when the key is missing
mapGet(m, k) == IF k \in DOMAIN m THEN m[k] ELSE ""

\* the parameter loop of parseMediaType over the key/value pairs arr, from j:
\* [st |-> "ok", params, q] or nil (the q value is no number)
RECURSIVE scanMediaParams(_, _, _)
scanMediaParams(arr, j, params) ==
    LET quality(f) ==
            IF f.ok THEN [st |-> "ok", params |-> params, q |-> f.v] ELSE Nil
        pair(key, val) ==
            IF key = "q" THEN quality(ParseFloat(val))
            ELSE scanMediaParams(arr, j + 1, mapPut(params, key, val))
    IN  IF j > Len(arr) THEN [st |-> "ok", params |-> params, q |-> QUnit]
        ELSE pair(ToLower(arr[j][1]), unquote(arr[j][2]))

parseMediaType(s, i) ==
    LET entry(m, r) ==
            IF r.st = "ok"
            THEN Entry([mainType |-> m.g1, subtype |-> m.g2, params |-> r.params,
                        q |-> r.q, i |-> i])
            ELSE r
        pairs(m, kvps) ==
            entry(m, scanMediaParams(
                         [k \in 1..Len(kvps) |-> splitKeyValuePair(kvps[k])], 1, <<>>))
        matched(m) ==
            IF ~m.ok THEN Nil
            ELSE pairs(m, IF m.g3 # "" THEN splitParameters(m.g3) ELSE <<>>)
    IN  matched(mediaTypeMatch(s))

parseAcceptMediaType(a) ==
    LET each(accepts) ==
            collect([k \in 1..Len(accepts) |-> parseMediaType(Trim(accepts[k]), k - 1)])
    IN  each(splitMediaTypes(a))


\* The orders in which "for k := range m" visits the keys of a map.  Go leaves
\* the order open and the runtime changes it from one loop to the next; a call
\* of the model takes one order for all its loops, which the functions that
\* lead to the loop are handed as their last argument.  No entry of the model
\* holds more than two parameters, so the two orders are all there are.
\* The media type functions alone range over a map (getMapKeys, called by
\* mediaTypeSpecify); the calls of the others have the order "none".
RangeOrders == {"forward", "backward"}

\* the keys of m in the order the range loop visits them
getMapKeys(m, order) ==
    LET RECURSIVE listed(_)
        listed(S) ==
            IF S = {} THEN <<>>
            ELSE LET k == CHOOSE x \in S : TRUE IN <<k>> \o listed(S \ {k})
        visited(keys) ==
            IF order = "backward"
            THEN [n \in 1..Len(keys) |-> keys[Len(keys) + 1 - n]]
            ELSE keys
    IN  visited(listed(DOMAIN m))

\* f (a function of the elements) holds of every element of arr; the loop
\* returns at the first that fails
every(arr, f) ==
    LET RECURSIVE from(_)
        from(n) ==
            IF n > Len(arr) THEN TRUE
            ELSE IF ~f[arr[n]] THEN FALSE
            ELSE from(n + 1)
    IN  from(1)

\* a variant that takes no account of the parameters of the entry
mediaTypeSpecifyNoParams(mediaType, ac, index, order) ==
    LET spec(typeEq, subEq) ==
            IF ~typeEq /\ ac.mainType # "*" THEN Nil
            ELSE IF ~subEq /\ ac.subtype # "*" THEN Nil
            ELSE Entry(specificity(index, ac.i, ac.q,
                           (IF typeEq THEN 4 ELSE 0) + (IF subEq THEN 2 ELSE 0)))
        candidate(p) ==
            IF p.st # "ok" THEN Nil
            ELSE spec(ToLower(ac.mainType) = ToLower(p.e.mainType),
                      ToLower(ac.subtype) = ToLower(p.e.subtype))
    IN  candidate(parseMediaType(mediaType, index))

\* a variant whose loop over the parameters returns at the first key, match
\* or no match
mediaTypeSpecifyFirstKey(mediaType, ac, index, order) ==
    LET agrees(p, k) ==
            \/ ac.params[k] = "*"
            \/ ToLower(ac.params[k]) = ToLower(mapGet(p.e.params, k))
        spec(typeEq, subEq, keys, all) ==
            IF ~typeEq /\ ac.mainType # "*" THEN Nil
            ELSE IF ~subEq /\ ac.subtype # "*" THEN Nil
            ELSE IF Len(keys) > 0 /\ ~all THEN Nil
            ELSE Entry(specificity(index, ac.i, ac.q,
                           (IF typeEq THEN 4 ELSE 0) + (IF subEq THEN 2 ELSE 0)
                               + (IF Len(keys) > 0 THEN 1 ELSE 0)))
        first(p, keys) == Len(keys) = 0 \/ agrees(p, keys[1])
        candidate(p) ==
            IF p.st # "ok" THEN Nil
            ELSE spec(ToLower(ac.mainType) = ToLower(p.e.mainType),
                      ToLower(ac.subtype) = ToLower(p.e.subtype),
                      getMapKeys(ac.params, order),
                      first(p, getMapKeys(ac.params, order)))
    IN  candidate(parseMediaType(mediaType, index))

mediaTypeSpecify(mediaType, ac, index, order) ==
    LET agrees(p, k) ==
            \/ ac.params[k] = "*"
            \/ ToLower(ac.params[k]) = ToLower(mapGet(p.e.params, k))
        spec(typeEq, subEq, keys, all) ==
            IF ~typeEq /\ ac.mainType # "*" THEN Nil
            ELSE IF ~subEq /\ ac.subtype # "*" THEN Nil
            ELSE IF Len(keys) > 0 /\ ~all THEN Nil
            ELSE Entry(specificity(index, ac.i, ac.q,
                           (IF typeEq THEN 4 ELSE 0) + (IF subEq THEN 2 ELSE 0)
                               + (IF Len(keys) > 0 THEN 1 ELSE 0)))
        candidate(p) ==
            IF p.st # "ok" THEN Nil
            ELSE spec(ToLower(ac.mainType) = ToLower(p.e.mainType),
                      ToLower(ac.subtype) = ToLower(p.e.subtype),
                      getMapKeys(ac.params, order),
                      every(getMapKeys(ac.params, order),
                            [k \in DOMAIN ac.params |-> agrees(p, k)]))
    IN  candidate(parseMediaType(mediaType, index))

RECURSIVE mediaTypePriorityFrom(_, _, _, _, _, _)
mediaTypePriorityFrom(mediaType, entries, index, k, priority, order) ==
    LET after(spec) ==
            mediaTypePriorityFrom(mediaType, entries, index, k + 1,
                IF spec.st = "ok" THEN better(priority, spec.e) ELSE priority, order)
    IN  IF k > Len(entries) THEN priority
        ELSE after(mediaTypeSpecify(mediaType, entries[k], index, order))

getMediaTypePriority(mediaType, entries, index, order) ==
    mediaTypePriorityFrom(mediaType, entries, index, 1, NoPriority, order)

getMediaTypeSpecificities(types, entries, order) ==
    [k \in 1..Len(types) |-> getMediaTypePriority(types[k], entries, k - 1, order)]

toMediaTypes(entries) ==
    [k \in 1..Len(entries) |-> entries[k].mainType \o "/" \o entries[k].subtype]

PreferredMediaTypes(a, prov, order) ==
    LET ranked(parsed, prios) ==
            [panicked |-> FALSE, acs |-> parsed.es, priorities |-> prios,
             result |-> project(sortBy("mediaTypeSpec", filterSpecs(prios)), prios, prov)]
        negotiated(parsed) ==
            IF parsed.st = "panic"
            THEN [panicked |-> TRUE, acs |-> <<>>, priorities |-> <<>>, result |-> <<>>]
            ELSE IF Len(prov) = 0
            THEN [panicked |-> FALSE, acs |-> parsed.es, priorities |-> <<>>,
                  result |-> toMediaTypes(sortBy("mediaTypeEntry", filterEntries(parsed.es)))]
            ELSE ranked(parsed, getMediaTypeSpecificities(prov, parsed.es, order))
    IN  negotiated(parseAcceptMediaType(a))

-----------------------------------------------------------------------------
(* The calls.  Init draws the arguments of one call; each action is one    *)
(* whole call of a package function on them.                               *)

MaxSegs == 3

MaxProvided == 2

\* the sequences of 1..n elements of S
RECURSIVE SeqsUpTo(_, _)
SeqsUpTo(S, n) ==
    LET longer(shorter) == shorter \cup {Append(q, x) : q \in shorter, x \in S}
    IN  IF n = 0 THEN {<<>>} ELSE longer(SeqsUpTo(S, n - 1))

\* no element occurs twice in the sequence
Distinct(q) == \A i, j \in 1..Len(q) : i # j => q[i] # q[j]

\* header values: 1..MaxSegs different segments joined by ", "
HeadersOf(segs) ==
    {Join(q, ", ") : q \in {x \in SeqsUpTo(segs, MaxSegs) : x # <<>> /\ Distinct(x)}}

CharsetSegs == {"a", "b;q=0.5", "*;q=0.5", "a;q=0", "b;q=x", "a;q"}

CharsetCandidates == {"a", "B", "*"}

EncodingSegs == {"gz", "identity;q=0.5", "*;q=0.5", "gz;q=0", "br;q=x", "br;q"}

EncodingCandidates == {"gz", "identity", "BR"}

LanguageSegs == {"en", "en-US;q=0.5", "*;q=0.5", "fr;q=0", "fr;q=x", "fr;q"}

LanguageCandidates == {"en", "en-us", "FR"}

MediaTypeSegs ==
    {"text/html", "text/*;q=0.5", "*/*;q=0.5", "a/b;q=0", "a/b;q=x", "text/html;q"}

MediaTypeCandidates == {"text/html", "TEXT/plain", "a/b"}

\* a header value of 13 segments: sort.Sort partitions from 13 elements on
LongCharsetHeader == "a;q=0.5, b, c, d, e, f, g, h, i, j, k, l, m"

CharsetAccepts ==
    {"", LongCharsetHeader, "a;q=5, b;q=-1", "a;q=0.5=x, b;q=0.2",
     "a, b, c, d, e;q=0.5, f, g, h, i, j, k, l, m"} \cup HeadersOf(CharsetSegs)

EncodingAccepts ==
    {"", "gz;q=5, br;q=-1", "gz;q=0.5=x, br;q=0.2"} \cup HeadersOf(EncodingSegs)

LanguageAccepts ==
    {"", "en;q=5, fr;q=-1", "en;q=0.5=x, fr;q=0.2"} \cup HeadersOf(LanguageSegs)

MediaTypeAccepts ==
    {"", "a/b;q=0.5, b/b, c/b, d/b, e/b, f/b, g/b, h/b, i/b, j/b, k/b, l/b, m/b",
     "text/html;q=5, a/b;q=-1", "text/html, a/*",
     "text/html;q=0.5=x, a/b;q=0.2"} \cup HeadersOf(MediaTypeSegs)

\* a candidate list of 13 values, each the name of one entry of the headers
\* of 13 segments
LongCharsetProvided ==
    <<"j", "k", "a", "d", "c", "m", "e", "b", "i", "g", "l", "h", "f">>

CharsetProvided == SeqsUpTo(CharsetCandidates, MaxProvided) \cup {LongCharsetProvided}

EncodingProvided == SeqsUpTo(EncodingCandidates, MaxProvided)

LanguageProvided == SeqsUpTo(LanguageCandidates, MaxProvided)

MediaTypeProvided == SeqsUpTo(MediaTypeCandidates, MaxProvided)

\* http.Header(nil)
NoHeader == [isNil |-> TRUE, m |-> <<>>]

Init ==
    /\ Header = NoHeader
    /\ fn = "none"
    /\ \/ accept \in CharsetAccepts /\ provided \in CharsetProvided
       \/ accept \in EncodingAccepts /\ provided \in EncodingProvided
       \/ accept \in LanguageAccepts /\ provided \in LanguageProvided
       \/ accept \in MediaTypeAccepts /\ provided \in MediaTypeProvided
    /\ acs = <<>>
    /\ priorities = <<>>
    /\ panicked = FALSE
    /\ result = <<>>
    /\ best = ""
    /\ calls = <<>>
    /\ release \in Releases
    /\ rangeOrder = "none"

\* the state after a call that ended as r, its range loops in the given order
Returned(name, order, r) ==
    /\ fn' = name
    /\ rangeOrder' = order
    /\ acs' = r.acs
    /\ priorities' = r.priorities
    /\ panicked' = r.panicked
    /\ result' = r.result
    /\ UNCHANGED <<Header, accept, provided, best, calls, release>>

CallPreferredCharsets ==
    /\ fn = "none"
    /\ accept \in CharsetAccepts /\ provided \in CharsetProvided
    /\ Returned("PreferredCharsets", "none", PreferredCharsets(accept, provided))

CallPreferredEncodings ==
    /\ fn = "none"
    /\ accept \in EncodingAccepts /\ provided \in EncodingProvided
    /\ Returned("PreferredEncodings", "none", PreferredEncodings(accept, provided))

CallPreferredLanguages ==
    /\ fn = "none"
    /\ accept \in LanguageAccepts /\ provided \in LanguageProvided
    /\ Returned("PreferredLanguages", "none", PreferredLanguages(accept, provided))

CallPreferredMediaTypes ==
    /\ fn = "none"
    /\ accept \in MediaTypeAccepts /\ provided \in MediaTypeProvided
    /\ \E order \in RangeOrders :
           Returned("PreferredMediaTypes", order,
                    PreferredMediaTypes(accept, provided, order))

Next ==
    \/ CallPreferredCharsets
    \/ CallPreferredEncodings
    \/ CallPreferredLanguages
    \/ CallPreferredMediaTypes

Spec == Init /\ [][Next]_vars

-----------------------------------------------------------------------------
(* The Negotiator: the header value is read from Negotiator.Header         *)

UpperOf == [c \in {Char(LowerLetters, k) : k \in 1..Len(LowerLetters)} |->
               Char(UpperLetters, FirstIndex(LowerLetters, c))]

UpperChar(c) == IF c \in DOMAIN UpperOf THEN UpperOf[c] ELSE c

\* the bytes a header field name may hold (the backquote, which no string of
\* this module contains, is left out)
IsTokenChar(c) ==
    \/ c \in DOMAIN UpperOf \/ c \in DOMAIN LowerOf
    \/ FirstIndex(Digits, c) # 0
    \/ FirstIndex("!#$%&'*+-.^_|~", c) # 0

RECURSIVE canonicalFrom(_, _)
canonicalFrom(s, k) ==
    IF k > Len(s) THEN ""
    ELSE (IF k = 1 \/ Char(s, k - 1) = "-" THEN UpperChar(Char(s, k))
          ELSE LowerChar(Char(s, k))) \o canonicalFrom(s, k + 1)

\* textproto.CanonicalMIMEHeaderKey: a name with a byte that is no token
\* character is returned unchanged
CanonicalMIMEHeaderKey(s) ==
    IF \E k \in 1..Len(s) : ~IsTokenChar(Char(s, k)) THEN s ELSE canonicalFrom(s, 1)

HeaderAcceptCharset == CanonicalMIMEHeaderKey("Accept-Charset")

HeaderAcceptEncoding == CanonicalMIMEHeaderKey("Accept-Encoding")

HeaderAcceptLanguage == CanonicalMIMEHeaderKey("Accept-Language")

HeaderAccept == CanonicalMIMEHeaderKey("Accept")

\* [present |-> the slice is not nil, values |-> the slice]
getHeaderValues(h, key) ==
    IF h.isNil THEN [present |-> FALSE, values |-> <<>>]
    ELSE IF CanonicalMIMEHeaderKey(key) \in DOMAIN h.m
         THEN [present |-> TRUE, values |-> h.m[CanonicalMIMEHeaderKey(key)]]
    ELSE [present |-> FALSE, values |-> <<>>]

\* a variant that takes a header stored with an empty value for an absent one
getAcceptNonEmpty(h, key, defaultValue) ==
    LET joined(values) ==
            IF values.present /\ Join(values.values, ",") # ""
            THEN Join(values.values, ",") ELSE defaultValue
    IN  joined(getHeaderValues(h, key))

getAccept(h, key, defaultValue) ==
    LET joined(values) ==
            IF values.present THEN Join(values.values, ",") ELSE defaultValue
    IN  joined(getHeaderValues(h, key))

NegCharsetCandidates == {"a", "B", "*"}

NegEncodingCandidates == {"gz", "identity", "*"}

NegLanguageCandidates == {"en", "*", "FR;q=x", "en;q"}

NegMediaTypeCandidates == {"text/html", "*/*", "text"}

NegCharsetProvided == SeqsUpTo(NegCharsetCandidates, MaxProvided)

NegEncodingProvided == SeqsUpTo(NegEncodingCandidates, MaxProvided)

NegLanguageProvided == SeqsUpTo(NegLanguageCandidates, MaxProvided)

NegMediaTypeProvided == SeqsUpTo(NegMediaTypeCandidates, MaxProvided)

\* the values stored for one header name: one value, two values, one empty
\* value, an empty slice
StoredValues(plain, weighted) == {<<plain>>, <<weighted, plain>>, <<"">>, <<>>}

\* the header sources: nil, the empty map, and the maps that store one name
HeaderSources ==
    {NoHeader, [isNil |-> FALSE, m |-> <<>>]}
        \cup {[isNil |-> FALSE, m |-> [k \in {HeaderAcceptCharset} |-> v]] :
                 v \in StoredValues("a", "b;q=0.5")}
        \cup {[isNil |-> FALSE, m |-> [k \in {HeaderAcceptEncoding} |-> v]] :
                 v \in StoredValues("gz", "identity;q=0.5")}
        \cup {[isNil |-> FALSE, m |-> [k \in {HeaderAcceptLanguage} |-> v]] :
                 v \in StoredValues("en", "fr;q=0.5")}
        \cup {[isNil |-> FALSE, m |-> [k \in {HeaderAccept} |-> v]] :
                 v \in StoredValues("text/html", "*/*;q=0.5")}
        \cup {[isNil |-> FALSE, m |-> [k \in {"accept-charset"} |-> <<"a">>]]}

\* New(header), before any call on the Negotiator
InitNegotiator ==
    /\ Header \in HeaderSources
    /\ fn = "none"
    /\ accept = ""
    /\ provided \in NegCharsetProvided \cup NegEncodingProvided
                       \cup NegLanguageProvided \cup NegMediaTypeProvided
    /\ acs = <<>>
    /\ priorities = <<>>
    /\ panicked = FALSE
    /\ result = <<>>
    /\ best = ""
    /\ calls = <<>>
    /\ release \in Releases
    /\ rangeOrder = "none"

\* the state after a Negotiator method that negotiated the header value a
Negotiated(name, a, order, r) ==
    /\ fn' = name
    /\ accept' = a
    /\ rangeOrder' = order
    /\ acs' = r.acs
    /\ priorities' = r.priorities
    /\ panicked' = r.panicked
    /\ result' = r.result
    /\ UNCHANGED <<Header, provided, best, calls, release>>

Charsets ==
    /\ fn = "none"
    /\ provided \in NegCharsetProvided
    /\ LET preferred(a) == Negotiated("Charsets", a, "none", PreferredCharsets(a, provided))
       IN  preferred(getAccept(Header, HeaderAcceptCharset, "*"))

Encodings ==
    /\ fn = "none"
    /\ provided \in NegEncodingProvided
    /\ LET preferred(a) == Negotiated("Encodings", a, "none", PreferredEncodings(a, provided))
       IN  preferred(getAccept(Header, HeaderAcceptEncoding, "*"))

Languages ==
    /\ fn = "none"
    /\ provided \in NegLanguageProvided
    /\ LET preferred(a) == Negotiated("Languages", a, "none", PreferredLanguages(a, provided))
       IN  preferred(getAccept(Header, HeaderAcceptLanguage, "*"))

MediaTypes ==
    /\ fn = "none"
    /\ provided \in NegMediaTypeProvided
    /\ \E order \in RangeOrders :
           LET preferred(a) ==
                   Negotiated("MediaTypes", a, order,
                              PreferredMediaTypes(a, provided, order))
           IN  preferred(getAccept(Header, HeaderAccept, "*/*"))

NextNegotiator ==
    \/ Charsets
    \/ Encodings
    \/ Languages
    \/ MediaTypes

SpecNegotiator == InitNegotiator /\ [][NextNegotiator]_vars

-----------------------------------------------------------------------------
(* A reused Negotiator: any of its eight methods, called again and again   *)
(* with changing candidate lists; Header is the reference New stored.      *)

\* getMostPreferred with a plausible slip: the last element for the first
getMostPreferredLast(accepts) == IF Len(accepts) = 0 THEN "" ELSE accepts[Len(accepts)]

getMostPreferred(accepts) == IF Len(accepts) = 0 THEN "" ELSE accepts[1]

\* the number of calls made on the one Negotiator
MaxCalls == 3

\* no header source, and one that stores all four names, three of them with
\* two values and Accept with an entry of two parameters
ReuseHeaderSources ==
    {NoHeader,
     [isNil |-> FALSE,
      m |-> (HeaderAcceptCharset :> <<"b;q=0.5", "*;q=0.1">>)
              @@ (HeaderAcceptEncoding :> <<"gz;q=0.5">>)
              @@ (HeaderAcceptLanguage :> <<"fr;q=0.5", "en">>)
              @@ (HeaderAccept :> <<"text/*;q=0.5", "a/b;level=a;b=2">>)]}

\* the candidate lists of the calls, by dimension
ReuseLists(dim) ==
    CASE dim = "charset"   -> {<<>>, <<"">>, <<"a", "B">>}
      [] dim = "encoding"  -> {<<>>, <<"", "gz">>}
      [] dim = "language"  -> {<<>>, <<"en", "FR">>}
      [] dim = "mediaType" -> {<<>>, <<"a/b;level=a", "text/html">>}

InitReuse ==
    /\ Header \in ReuseHeaderSources
    /\ fn = "none"
    /\ accept = ""
    /\ provided = <<>>
    /\ acs = <<>>
    /\ priorities = <<>>
    /\ panicked = FALSE
    /\ result = <<>>
    /\ best = ""
    /\ calls = <<>>
    /\ release \in Releases
    /\ rangeOrder = "none"

\* the state after the method name was called with the candidates p: a is
\* the header value it negotiated, order the order of its range loops, r the
\* outcome of the Preferred* call, b the string it returned if it is a scalar
\* accessor
Called(name, p, a, order, r, b) ==
    /\ Len(calls) < MaxCalls
    /\ fn' = name
    /\ rangeOrder' = order
    /\ provided' = p
    /\ accept' = a
    /\ acs' = r.acs
    /\ priorities' = r.priorities
    /\ panicked' = r.panicked
    /\ result' = r.result
    /\ best' = b
    /\ calls' = Append(calls, [fn |-> name, provided |-> p, panicked |-> r.panicked,
                                result |-> r.result, best |-> b])
    /\ UNCHANGED <<Header, release>>

ReuseCharsets ==
    \E p \in ReuseLists("charset") :
        LET listed(a, r) == Called("Charsets", p, a, "none", r, "")
            preferred(a) == listed(a, PreferredCharsets(a, p))
        IN  preferred(getAccept(Header, HeaderAcceptCharset, "*"))

ReuseCharset ==
    \E p \in ReuseLists("charset") :
        LET listed(a, r) == Called("Charset", p, a, "none", r, getMostPreferred(r.result))
            preferred(a) == listed(a, PreferredCharsets(a, p))
        IN  preferred(getAccept(Header, HeaderAcceptCharset, "*"))

ReuseEncodings ==
    \E p \in ReuseLists("encoding") :
        LET listed(a, r) == Called("Encodings", p, a, "none", r, "")
            preferred(a) == listed(a, PreferredEncodings(a, p))
        IN  preferred(getAccept(Header, HeaderAcceptEncoding, "*"))

ReuseEncoding ==
    \E p \in ReuseLists("encoding") :
        LET listed(a, r) == Called("Encoding", p, a, "none", r, getMostPreferred(r.result))
            preferred(a) == listed(a, PreferredEncodings(a, p))
        IN  preferred(getAccept(Header, HeaderAcceptEncoding, "*"))

ReuseLanguages ==
    \E p \in ReuseLists("language") :
        LET listed(a, r) == Called("Languages", p, a, "none", r, "")
            preferred(a) == listed(a, PreferredLanguages(a, p))
        IN  preferred(getAccept(Header, HeaderAcceptLanguage, "*"))

ReuseLanguage ==
    \E p \in ReuseLists("language") :
        LET listed(a, r) == Called("Language", p, a, "none", r, getMostPreferred(r.result))
            preferred(a) == listed(a, PreferredLanguages(a, p))
        IN  preferred(getAccept(Header, HeaderAcceptLanguage, "*"))

ReuseMediaTypes ==
    \E p \in ReuseLists("mediaType"), order \in RangeOrders :
        LET listed(a, r) == Called("MediaTypes", p, a, order, r, "")
            preferred(a) == listed(a, PreferredMediaTypes(a, p, order))
        IN  preferred(getAccept(Header, HeaderAccept, "*/*"))

ReuseMediaType ==
    \E p \in ReuseLists("mediaType"), order \in RangeOrders :
        LET listed(a, r) == Called("MediaType", p, a, order, r, getMostPreferred(r.result))
            preferred(a) == listed(a, PreferredMediaTypes(a, p, order))
        IN  preferred(getAccept(Header, HeaderAccept, "*/*"))

NextReuse ==
    \/ ReuseCharsets
    \/ ReuseCharset
    \/ ReuseEncodings
    \/ ReuseEncoding
    \/ ReuseLanguages
    \/ ReuseLanguage
    \/ ReuseMediaTypes
    \/ ReuseMediaType

SpecReuse == InitReuse /\ [][NextReuse]_vars

-----------------------------------------------------------------------------
(* The matching and parsing functions, called one at a time                *)

\* the longest string handed to splitMediaTypes
MaxLen == 5

\* the strings of at most n characters over the alphabet
RECURSIVE StringsUpTo(_, _)
StringsUpTo(alphabet, n) ==
    LET longer(shorter) == shorter \cup {t \o c : t \in shorter, c \in alphabet}
    IN  IF n = 0 THEN {""} ELSE longer(StringsUpTo(alphabet, n - 1))

\* inputs of splitMediaTypes: letters, commas and double quotes
QuotedStrings == StringsUpTo({"a", ",", "\""}, MaxLen)

\* inputs of parseMediaType: segments with parameters before and after q
ParamSegs ==
    {"text/html", "text/html;q=0.5", "text/html;LEVEL=1", "text/html;q=0.5;level=1",
     "text/html;level=1;q=0.5", "text/html;a=1;Q=0.5;b=2", "text/html;a=1;b=2",
     "text/html;q=x;a=1", "text/*;p=0.8", "*/*;q=0.5;a=1;b=2"}

\* header entries handed to the specify functions
UnitSegs(dim) ==
    CASE dim = "charset"   -> {"a", "B;q=0.5", "*", "*;q=0.5"}
      [] dim = "encoding"  -> {"gz", "GZ;q=0.5", "identity;q=0.5", "*;q=0.1"}
      [] dim = "language"  -> {"en", "en-US", "EN-us;q=0.5", "en-GB", "fr", "*;q=0.2"}
      [] dim = "mediaType" ->
             {"text/html", "text/*", "*/*", "*/html", "TEXT/html;Level=A",
              "text/html;level=*", "text/html;a=", "text/html;level=a;b=2;q=0.5"}

\* candidates handed to the specify functions
UnitCandidates(dim) ==
    CASE dim = "charset"   -> {"a", "b", "*", "c"}
      [] dim = "encoding"  -> {"gz", "IDENTITY", "*", "br"}
      [] dim = "language"  -> {"en", "en-us", "EN", "fr-FR", "*", "fr;q=x"}
      [] dim = "mediaType" ->
             {"text/html", "Text/HTML;level=a", "text/plain", "a/b;level=a",
              "text/html;level=A;b=2", "text/html;b=2"}

InitUnit ==
    /\ Header = NoHeader
    /\ fn = "none"
    /\ \/ \E dim \in {"charset", "encoding", "language", "mediaType"} :
              /\ accept \in UnitSegs(dim)
              /\ provided \in SeqsUpTo(UnitCandidates(dim), MaxProvided) \ {<<>>}
       \/ accept \in QuotedStrings \cup ParamSegs /\ provided = <<>>
    /\ acs = <<>>
    /\ priorities = <<>>
    /\ panicked = FALSE
    /\ result = <<>>
    /\ best = ""
    /\ calls = <<>>
    /\ release \in Releases
    /\ rangeOrder = "none"

\* the function name was called, its range loops in the given order: as
\* holds the entries it read or produced, ps its outcome for each candidate,
\* r the strings it returned
Applied(name, order, as, ps, r) ==
    /\ fn' = name
    /\ rangeOrder' = order
    /\ acs' = as
    /\ priorities' = ps
    /\ result' = r
    /\ UNCHANGED <<Header, accept, provided, panicked, best, calls, release>>

\* the entry is the segment parsed at the order o; the candidate at position k
\* of the list is matched against it with the index k - 1
CallCharsetSpecify ==
    /\ fn = "none"
    /\ accept \in UnitSegs("charset")
    /\ provided \in SeqsUpTo(UnitCandidates("charset"), MaxProvided) \ {<<>>}
    /\ \E o \in 0..1 :
           LET specified(ac) ==
                   Applied("charsetSpecify", "none", <<ac>>,
                           [k \in 1..Len(provided) |->
                               charsetSpecify(provided[k], ac, k - 1)], <<>>)
           IN  specified(parseCharset(accept, o).e)

CallEncodingSpecify ==
    /\ fn = "none"
    /\ accept \in UnitSegs("encoding")
    /\ provided \in SeqsUpTo(UnitCandidates("encoding"), MaxProvided) \ {<<>>}
    /\ \E o \in 0..1 :
           LET specified(ac) ==
                   Applied("encodingSpecify", "none", <<ac>>,
                           [k \in 1..Len(provided) |->
                               encodingSpecify(provided[k], ac, k - 1)], <<>>)
           IN  specified(parseEncoding(accept, o).e)

CallLanguageSpecify ==
    /\ fn = "none"
    /\ accept \in UnitSegs("language")
    /\ provided \in SeqsUpTo(UnitCandidates("language"), MaxProvided) \ {<<>>}
    /\ \E o \in 0..1 :
           LET specified(ac) ==
                   Applied("languageSpecify", "none", <<ac>>,
                           [k \in 1..Len(provided) |->
                               languageSpecify(provided[k], ac, k - 1)], <<>>)
           IN  specified(parseLanguage(accept, o).e)

CallMediaTypeSpecify ==
    /\ fn = "none"
    /\ accept \in UnitSegs("mediaType")
    /\ provided \in SeqsUpTo(UnitCandidates("mediaType"), MaxProvided) \ {<<>>}
    /\ \E o \in 0..1, order \in RangeOrders :
           LET specified(ac) ==
                   Applied("mediaTypeSpecify", order, <<ac>>,
                           [k \in 1..Len(provided) |->
                               mediaTypeSpecify(provided[k], ac, k - 1, order)], <<>>)
           IN  specified(parseMediaType(accept, o).e)

CallSplitMediaTypes ==
    /\ fn = "none"
    /\ accept \in QuotedStrings /\ provided = <<>>
    /\ Applied("splitMediaTypes", "none", <<>>, <<>>, splitMediaTypes(accept))

\* a segment that does not parse leaves no entry
CallParseMediaType ==
    /\ fn = "none"
    /\ accept \in ParamSegs /\ provided = <<>>
    /\ \E o \in 0..1 :
           LET parsed(r) ==
                   Applied("parseMediaType", "none",
                           IF r.st = "ok" THEN <<r.e>> ELSE <<>>, <<>>, <<>>)
           IN  parsed(parseMediaType(accept, o))

NextUnit ==
    \/ CallCharsetSpecify
    \/ CallEncodingSpecify
    \/ CallLanguageSpecify
    \/ CallMediaTypeSpecify
    \/ CallSplitMediaTypes
    \/ CallParseMediaType

SpecUnit == InitUnit /\ [][NextUnit]_vars

-----------------------------------------------------------------------------
(* Properties                                                              *)

\* the call returned a list
Completed == fn # "none" /\ ~panicked

CandidateMode == Completed /\ Len(provided) > 0

HeaderMode == Completed /\ Len(provided) = 0

Range(seq) == {seq[k] : k \in 1..Len(seq)}

Count(seq, v) == Cardinality({k \in 1..Len(seq) : seq[k] = v})

\* the priority the call resolved for the candidate value v (equal candidate
\* values resolve to priorities that differ in the candidate index only)
PriorityOf(v) == priorities[CHOOSE k \in 1..Len(provided) : provided[k] = v]

\* the dimension of the function called
Dimension ==
    CASE fn \in {"PreferredCharsets", "Charsets", "Charset"}       -> "charset"
      [] fn \in {"PreferredEncodings", "Encodings", "Encoding"}    -> "encoding"
      [] fn \in {"PreferredLanguages", "Languages", "Language"}    -> "language"
      [] fn \in {"PreferredMediaTypes", "MediaTypes", "MediaType"} -> "mediaType"

\* the raw segments of the negotiated header value
SegsOf ==
    IF Dimension = "mediaType" THEN splitMediaTypes(accept) ELSE Split(accept, ",")

\* does the entry e of the call's dimension match the candidate c
MatchesEntry(c, e) ==
    CASE Dimension = "charset"   -> charsetSpecify(c, e, 0).st = "ok"
      [] Dimension = "encoding"  -> encodingSpecify(c, e, 0).st = "ok"
      [] Dimension = "language"  -> languageSpecify(c, e, 0).st = "ok"
      [] Dimension = "mediaType" -> mediaTypeSpecify(c, e, 0, rangeOrder).st = "ok"

\* the value string an entry is returned as when no candidates are given
ValueOf(e) ==
    CASE Dimension = "charset"   -> e.charset
      [] Dimension = "encoding"  -> e.encoding
      [] Dimension = "language"  -> e.full
      [] Dimension = "mediaType" -> e.mainType \o "/" \o e.subtype

\* C1: PreferredCharsets and PreferredMediaTypes with candidates return them
\* ordered by non-increasing resolved quality.
C1_QualityDescending ==
    (CandidateMode /\ fn \in {"PreferredCharsets", "PreferredMediaTypes"}) =>
        \A a, b \in 1..Len(result) :
            a < b => PriorityOf(result[a]).q >= PriorityOf(result[b]).q

\* C2 as stated: with candidates, every output value is a candidate and no
\* value appears in the output more than once.
C2_SubsetNoRepeat ==
    CandidateMode =>
        \A a \in 1..Len(result) :
            result[a] \in Range(provided) /\ Count(result, result[a]) = 1

\* C2 amended: with candidates, every output value is a candidate and appears
\* in the output at most as often as it appears in the candidate list.
C2_SubsetNoExtraRepeat ==
    CandidateMode =>
        \A a \in 1..Len(result) :
            /\ result[a] \in Range(provided)
            /\ Count(result, result[a]) <= Count(provided, result[a])

C2_Witness ==
    CandidateMode /\ Len(result) = 2 /\ result[1] = result[2]

\* C3: with candidates, a candidate is output once if its resolved quality is
\* > 0 and not at all otherwise; a candidate that no entry matches is absent;
\* the output is as long as the number of candidates of quality > 0.
C3_ExactlyThePositive ==
    CandidateMode =>
        /\ Len(result) = Cardinality({k \in 1..Len(provided) : priorities[k].q > 0})
        /\ \A v \in Range(provided) :
              Count(result, v) =
                  Cardinality({k \in 1..Len(provided) :
                                  provided[k] = v /\ priorities[k].q > 0})
        /\ \A k \in 1..Len(provided) :
              (\A j \in 1..Len(acs) : ~MatchesEntry(provided[k], acs[j]))
                  => provided[k] \notin Range(result)

C3_Witness ==
    /\ CandidateMode
    /\ Len(provided) = 2 /\ Len(result) = 1
    /\ \E k \in 1..Len(provided) :
          \A j \in 1..Len(acs) : ~MatchesEntry(provided[k], acs[j])

\* C4: no negotiation call fails with a runtime error, whatever the header
\* value and the candidates.
C4_NoCallFails == ~panicked

\* C5: without candidates the call returns the parsed entries of quality > 0,
\* each once, by quality descending and, for equal qualities, by header
\* position ascending.
C5_HeaderModeOrder ==
    HeaderMode =>
        LET kept == {k \in 1..Len(acs) : acs[k].q > 0}
            rank(k) == Cardinality({j \in kept :
                           \/ acs[j].q > acs[k].q
                           \/ acs[j].q = acs[k].q /\ acs[j].i < acs[k].i})
        IN  /\ Len(result) = Cardinality(kept)
            /\ \A k \in kept : result[rank(k) + 1] = ValueOf(acs[k])

\* the first q parameter of the segment has a value that is no number
HasInvalidQ(seg) ==
    LET isQ(x) == Len(x) >= 1 /\ Char(x, 1) = "q" /\ (Len(x) = 1 \/ Char(x, 2) = "=")
        t      == Trim(seg)
        semi   == FirstIndex(t, ";")
        raw    == Split(From(t, semi + 1), ";")
        params == [j \in 1..Len(raw) |-> Trim(raw[j])]
    IN  /\ semi > 0
        /\ \E j \in 1..Len(params) :
              /\ isQ(params[j]) /\ Len(params[j]) >= 2
              /\ ~ParseFloat(From(params[j], 3)).ok
              /\ \A h \in 1..(j - 1) : ~isQ(params[h])

\* the entry the segment yields when it is the whole header value
AloneEntries(seg) ==
    LET r == CASE Dimension = "charset"   -> parseCharset(Trim(seg), 0)
               [] Dimension = "encoding"  -> parseEncoding(Trim(seg), 0)
               [] Dimension = "language"  -> parseLanguage(Trim(seg), 0)
               [] Dimension = "mediaType" -> parseMediaType(Trim(seg), 0)
    IN  IF r.st = "ok" THEN {r.e} ELSE {}

\* C6: in all four dimensions a segment whose q value is no number yields no
\* entry at all and can match no candidate; every other segment yields the
\* entry it yields alone.
C6_InvalidQDropped ==
    Completed =>
        LET segs == SegsOf
        IN  \A k \in 1..Len(segs) :
                IF HasInvalidQ(segs[k])
                THEN /\ \A j \in 1..Len(acs) : acs[j].i # k - 1
                     /\ \A j \in 1..Len(priorities) : priorities[j].o # k - 1
                ELSE {e \in Range(acs) : e.i = k - 1}
                         = {[e EXCEPT !.i = k - 1] : e \in AloneEntries(segs[k])}

\* C8: PreferredLanguages and PreferredEncodings with candidates return them
\* by resolved quality descending, and candidates of equal quality and equal
\* specificity by the header position of their matched entry ascending.
C8_QualityThenEntryOrder ==
    (CandidateMode /\ fn \in {"PreferredLanguages", "PreferredEncodings"}) =>
        \A a, b \in 1..Len(result) :
            a < b =>
                LET pa == PriorityOf(result[a])
                    pb == PriorityOf(result[b])
                IN  /\ pa.q >= pb.q
                    /\ (pa.q = pb.q /\ pa.s = pb.s) => pa.o <= pb.o

C8_Witness ==
    /\ CandidateMode /\ fn \in {"PreferredLanguages", "PreferredEncodings"}
    /\ Len(provided) = 2 /\ Len(result) = 2
    /\ \/ priorities[1].q < priorities[2].q
       \/ /\ priorities[1].q = priorities[2].q
          /\ priorities[1].s = priorities[2].s
          /\ priorities[1].o > priorities[2].o

\* the entries parsed from the segments of an Accept-Encoding header value
\* (the synthetic entry carries the number of segments as its position)
ExplicitEntries == SelectSeq(acs, LAMBDA e : e.i < Len(Split(accept, ",")))

SyntheticEntries == SelectSeq(acs, LAMBDA e : e.i >= Len(Split(accept, ",")))

\* the entry names identity, or is the wildcard
NamesIdentity(e) == ToLower(e.encoding) = "identity" \/ e.encoding = "*"

\* C9: when no parsed entry of the Accept-Encoding header matches identity,
\* PreferredEncodings(header, "identity") returns ["identity"].
C9_IdentityAcceptable ==
    ( /\ fn = "PreferredEncodings" /\ Completed
      /\ provided = <<"identity">>
      /\ \A k \in 1..Len(ExplicitEntries) : ~NamesIdentity(ExplicitEntries[k]) )
        => result = <<"identity">>

\* the least of a non-empty set of integers
Least(S) == CHOOSE x \in S : \A y \in S : x <= y

\* C10: parseAcceptEncoding appends one identity entry of quality
\* min(1.0, least parsed quality) exactly when no parsed entry names identity or
\* is "*"; so some entry of the parsed set always matches identity.
C10_SyntheticIdentity ==
    (fn = "PreferredEncodings" /\ Completed) =>
        /\ Len(SyntheticEntries) =
              IF \E k \in 1..Len(ExplicitEntries) : NamesIdentity(ExplicitEntries[k])
              THEN 0 ELSE 1
        /\ Len(SyntheticEntries) = 1 =>
              /\ acs[Len(acs)] = SyntheticEntries[1]
              /\ SyntheticEntries[1].encoding = "identity"
              /\ SyntheticEntries[1].q =
                    Least({QUnit} \cup {ExplicitEntries[k].q :
                                           k \in 1..Len(ExplicitEntries)})
        /\ \E k \in 1..Len(acs) : NamesIdentity(acs[k])

C10_Witness ==
    /\ fn = "PreferredEncodings" /\ Completed
    /\ Len(ExplicitEntries) = 2
    /\ Len(SyntheticEntries) = 1
    /\ SyntheticEntries[1].q < ExplicitEntries[1].q

\* the header the method negotiates is absent from the header source
HeaderAbsent ==
    ~getHeaderValues(Header,
                     CASE fn = "Charsets"   -> HeaderAcceptCharset
                       [] fn = "Encodings"  -> HeaderAcceptEncoding
                       [] fn = "Languages"  -> HeaderAcceptLanguage
                       [] fn = "MediaTypes" -> HeaderAccept).present

DefaultOf == IF fn = "MediaTypes" THEN "*/*" ELSE "*"

\* C7: with the header absent, Charsets, Languages and MediaTypes return the
\* default alone when no candidates are given, and otherwise the whole
\* candidate list, every candidate present and in its original order.
C7_AbsentHeaderKeepsCandidates ==
    (fn \in {"Charsets", "Languages", "MediaTypes"} /\ HeaderAbsent) =>
        /\ ~panicked
        /\ result = IF provided = <<>> THEN <<DefaultOf>> ELSE provided

\* the candidate parses under the grammar of the dimension
Parseable(c) ==
    CASE Dimension = "language"  -> parseLanguage(c, 0).st = "ok"
      [] Dimension = "mediaType" -> parseMediaType(c, 0).st = "ok"
      [] OTHER -> TRUE

-----------------------------------------------------------------------------
(* A reused Negotiator                                                     *)

\* the list method a scalar accessor wraps
ListMethodOf(name) ==
    CASE name = "Charset"   -> "Charsets"
      [] name = "Encoding"  -> "Encodings"
      [] name = "Language"  -> "Languages"
      [] name = "MediaType" -> "MediaTypes"
      [] OTHER -> "none"

\* the pairs <<i, j>> of calls made so far: call i a scalar accessor, call j
\* its list method with the same candidates
AccessorPairs ==
    {ij \in (1..Len(calls)) \X (1..Len(calls)) :
        /\ calls[ij[2]].fn = ListMethodOf(calls[ij[1]].fn)
        /\ calls[ij[2]].provided = calls[ij[1]].provided}

\* C11 as stated: a scalar accessor returns the first element of what its
\* list method returns for the same candidates, and returns the empty string
\* exactly when that list is empty.
C11_FirstOrEmptyExactly ==
    \A ij \in AccessorPairs :
        LET b == calls[ij[1]].best
            l == calls[ij[2]].result
        IN  /\ l # <<>> => b = l[1]
            /\ b = "" <=> l = <<>>

\* C11 amended: a scalar accessor returns the first element of what its list
\* method returns for the same candidates, and the empty string when that
\* list is empty; it returns the empty string for a list that is not empty
\* only when the list begins with the empty string.
C11_FirstOrEmpty ==
    \A ij \in AccessorPairs :
        LET b == calls[ij[1]].best
            l == calls[ij[2]].result
        IN  /\ l # <<>> => b = l[1]
            /\ l = <<>> => b = ""
            /\ (b = "" /\ l # <<>>) => l[1] = ""

C11_Witness ==
    \E ij \in AccessorPairs :
        /\ Len(calls[ij[2]].result) = 2
        /\ calls[ij[2]].result[1] # calls[ij[2]].result[2]
        /\ calls[ij[1]].best = calls[ij[2]].result[1]

\* C16: on one Negotiator, two calls of the same method with the same
\* candidates end the same way (list, string, failure), whatever was called
\* in between and in whatever order the range loops of each call visited the
\* parameters of the entries.
C16_SameInputsSameOutput ==
    \A i, j \in 1..Len(calls) :
        (calls[i].fn = calls[j].fn /\ calls[i].provided = calls[j].provided)
            => calls[i] = calls[j]

\* MediaTypes is called a third time with the candidates of its first call,
\* one of which carries one of the two parameters of a header entry, and this
\* time the range loop visits the parameters backward
C16_Witness ==
    /\ Len(calls) = 3
    /\ calls[1].fn = "MediaTypes" /\ calls[3].fn = "MediaTypes"
    /\ calls[1].provided = calls[3].provided
    /\ calls[2].fn = calls[1].fn /\ calls[2].provided # calls[1].provided
    /\ calls[1].result # <<>> /\ calls[2].result # calls[1].result
    /\ rangeOrder = "backward"
    /\ \E k \in 1..Len(provided), e \in 1..Len(acs) :
          /\ Cardinality(DOMAIN acs[e].params) = 2
          /\ parseMediaType(provided[k], 0).st = "ok"
          /\ Cardinality(DOMAIN parseMediaType(provided[k], 0).e.params) = 1
          /\ \E key \in DOMAIN acs[e].params :
                mapGet(parseMediaType(provided[k], 0).e.params, key) = acs[e].params[key]

-----------------------------------------------------------------------------
(* Empty candidate lists, qualities, candidates that do not parse          *)

\* C12: a call with an empty candidate list returns the header's accepted
\* values and no empty result: the value of every parsed entry of quality
\* > 0, once per entry, in preference order (quality descending, header
\* position ascending among equal qualities).
C12_EmptyListInPreferenceOrder ==
    (Completed /\ provided = <<>>) =>
        LET kept == {k \in 1..Len(acs) : acs[k].q > 0}
            preferred(j, k) ==
                \/ acs[j].q > acs[k].q
                \/ acs[j].q = acs[k].q /\ acs[j].i < acs[k].i
            place(k) == 1 + Cardinality({j \in kept : preferred(j, k)})
        IN  /\ kept # {} => result # <<>>
            /\ Len(result) = Cardinality(kept)
            /\ \A k \in kept : result[place(k)] = ValueOf(acs[k])

\* C13: every parsed preference entry has a quality within [0, 1].
C13_QualityInUnitRange ==
    Completed => \A k \in 1..Len(acs) : 0 <= acs[k].q /\ acs[k].q <= QUnit

\* C14: a language or media type candidate that does not parse under the
\* grammar of its dimension raises no failure, matches no header entry and is
\* left out of the output.
C14_UnparseableMatchesNothing ==
    (fn \in {"Languages", "MediaTypes"}
        /\ \E k \in 1..Len(provided) : ~Parseable(provided[k])) =>
        /\ ~panicked
        /\ \A k \in 1..Len(provided) :
               ~Parseable(provided[k]) =>
                   /\ priorities[k].o = 0 - 1
                   /\ provided[k] \notin Range(result)

\* C15: the order fields of a parsed preference set are dense: its k-th
\* entry, counted from 0, has order k.
C15_OrderDense ==
    Completed => \A k \in 1..Len(acs) : acs[k].i = k - 1

-----------------------------------------------------------------------------
(* Quality monotonicity                                                    *)

\* the Preferred* function of the call's dimension
PreferredOf(a, p) ==
    CASE Dimension = "charset"   -> PreferredCharsets(a, p)
      [] Dimension = "encoding"  -> PreferredEncodings(a, p)
      [] Dimension = "language"  -> PreferredLanguages(a, p)
      [] Dimension = "mediaType" -> PreferredMediaTypes(a, p, rangeOrder)

\* the segment without its parameters: the same range with quality 1
WithoutParams(seg) ==
    IF FirstIndex(seg, ";") = 0 THEN seg ELSE SubSeq(seg, 1, FirstIndex(seg, ";") - 1)

\* the call's header with the quality of the entry of raw position o raised to 1
RaisedAccept(o) ==
    LET segs == SegsOf
    IN  Join([j \in 1..Len(segs) |->
                 IF j = o + 1 THEN WithoutParams(segs[j]) ELSE segs[j]], ",")

\* all candidates that match an entry do so with the same specificity bits
EqualSpecificity(prios) ==
    \A j, k \in 1..Len(prios) : (prios[j].o >= 0 /\ prios[k].o >= 0) => prios[j].s = prios[k].s

\* the first position of v in seq, 0 if there is none
Position(seq, v) ==
    IF v \in Range(seq) THEN Least({k \in 1..Len(seq) : seq[k] = v}) ELSE 0

\* the candidates of the call whose matched entry has a quality below 1 and
\* which the call returned, all matches being of equal specificity
Raisable ==
    IF CandidateMode /\ EqualSpecificity(priorities)
    THEN {k \in 1..Len(provided) :
             /\ priorities[k].o >= 0 /\ priorities[k].q < QUnit
             /\ provided[k] \in Range(result)}
    ELSE {}

\* C17: when the matching candidates have equal specificity, the call with
\* the quality of the entry matched by a returned candidate raised to 1, all
\* else unchanged, returns that candidate at the same position or earlier.
C17_QualityMonotone ==
    \A k \in Raisable :
        LET r2 == PreferredOf(RaisedAccept(priorities[k].o), provided)
        IN  /\ ~r2.panicked
            /\ r2.priorities[k].o = priorities[k].o /\ r2.priorities[k].q = QUnit
            /\ Position(r2.result, provided[k]) >= 1
            /\ Position(r2.result, provided[k]) <= Position(result, provided[k])

-----------------------------------------------------------------------------
(* Priority resolution                                                     *)

\* the specificity with which the entry e matches the candidate of index
\* k - 1 of the call (nil if it does not)
SpecifyOf(k, e) ==
    CASE Dimension = "charset"   -> charsetSpecify(provided[k], e, k - 1)
      [] Dimension = "encoding"  -> encodingSpecify(provided[k], e, k - 1)
      [] Dimension = "language"  -> languageSpecify(provided[k], e, k - 1)
      [] Dimension = "mediaType" -> mediaTypeSpecify(provided[k], e, k - 1, rangeOrder)

\* the positions in the parsed set of the entries that match candidate k
Matching(k) == {j \in 1..Len(acs) : SpecifyOf(k, acs[j]).st = "ok"}

\* the greatest element of a non-empty set of integers
Greatest(S) == CHOOSE x \in S : \A y \in S : y <= x

\* C18: the priority resolved for a candidate is, among the entries that
\* match it, the one of the highest specificity bits, among those of the
\* highest quality, among those of the lowest entry order.
C18_MostSpecificThenQuality ==
    CandidateMode =>
        \A k \in 1..Len(provided) :
            \A j \in Matching(k) :
                LET p == priorities[k]
                    e == SpecifyOf(k, acs[j]).e
                IN  \/ p.s > e.s
                    \/ p.s = e.s /\ p.q > e.q
                    \/ p.s = e.s /\ p.q = e.q /\ p.o <= e.o

\* C19: the priority resolved for a candidate is the specificity of the
\* matching entry that comes last in the header, whatever the bits and the
\* qualities of the matching entries before it; the sentinel of entry order
\* -1, quality 0 and bits 0 when no entry matches.
C19_LastMatchWins ==
    CandidateMode =>
        \A k \in 1..Len(provided) :
            IF Matching(k) = {}
            THEN priorities[k].o = 0 - 1 /\ priorities[k].q = 0 /\ priorities[k].s = 0
            ELSE priorities[k] = SpecifyOf(k, acs[Greatest(Matching(k))]).e

C19_Witness ==
    /\ CandidateMode
    /\ \E k \in 1..Len(provided) :
           /\ Cardinality(Matching(k)) >= 2
           /\ \E j \in Matching(k) :
                  /\ SpecifyOf(k, acs[j]).e.s > priorities[k].s
                  /\ SpecifyOf(k, acs[j]).e.q > priorities[k].q
    /\ \E k \in 1..Len(provided) : Matching(k) = {}

\* C20: a candidate whose exact matches in the header all have quality 0, and
\* which has such a match, is not in the output, whatever other entries the
\* header holds and wherever they stand.
C20_ExactZeroExcluded ==
    CandidateMode =>
        \A k \in 1..Len(provided) :
            LET exact == {j \in 1..Len(acs) :
                             ToLower(ValueOf(acs[j])) = ToLower(provided[k])}
            IN  (exact # {} /\ \A j \in exact : acs[j].q = 0)
                    => provided[k] \notin Range(result)

-----------------------------------------------------------------------------
(* The order of the candidates, the comparators                            *)

\* the priorities of the candidates the call kept, in the order of the output
\* (each output value stands for one candidate; equal candidate values have
\* priorities that differ in the candidate index only)
Ranked == [a \in 1..Len(result) |-> PriorityOf(result[a])]

\* C21: PreferredCharsets and PreferredMediaTypes return candidates of equal
\* resolved quality by specificity bits ascending, those of equal bits by
\* matched-entry order ascending, those of equal matched-entry order by
\* candidate index ascending.
C21_TieBreakAscending ==
    (CandidateMode /\ fn \in {"PreferredCharsets", "PreferredMediaTypes"}
        /\ Distinct(provided)) =>
        \A a, b \in 1..Len(result) :
            (a < b /\ Ranked[a].q = Ranked[b].q) =>
                \/ Ranked[a].s < Ranked[b].s
                \/ Ranked[a].s = Ranked[b].s /\ Ranked[a].o < Ranked[b].o
                \/ Ranked[a].s = Ranked[b].s /\ Ranked[a].o = Ranked[b].o
                       /\ Ranked[a].i < Ranked[b].i

\* C22: PreferredMediaTypes returns, of two candidates of equal resolved
\* quality, the one of the higher specificity bits first.
C22_MoreSpecificFirst ==
    (CandidateMode /\ fn = "PreferredMediaTypes" /\ Distinct(provided)) =>
        \A a, b \in 1..Len(result) :
            (a < b /\ Ranked[a].q = Ranked[b].q) => Ranked[a].s >= Ranked[b].s

\* the elements the call handed to the sort, and its comparator
Sorted ==
    IF Len(provided) = 0 THEN filterEntries(acs) ELSE filterSpecs(priorities)

Comparator ==
    CASE fn = "PreferredCharsets" ->
             IF Len(provided) = 0 THEN "charsetEntry" ELSE "charsetSpec"
      [] fn = "PreferredMediaTypes" ->
             IF Len(provided) = 0 THEN "mediaTypeEntry" ELSE "mediaTypeSpec"

\* C23: the comparators of PreferredCharsets and PreferredMediaTypes are a
\* strict order on the elements of a call: of two distinct elements never
\* each is less than the other, and less is transitive.
C23_StrictOrder ==
    (Completed /\ fn \in {"PreferredCharsets", "PreferredMediaTypes"}) =>
        LET els == Range(Sorted)
        IN  /\ \A x, y \in els :
                   x # y => ~(Less(Comparator, x, y) /\ Less(Comparator, y, x))
            /\ \A x, y, z \in els :
                   (Less(Comparator, x, y) /\ Less(Comparator, y, z))
                       => Less(Comparator, x, z)

-----------------------------------------------------------------------------
(* The matching functions                                                  *)

\* the entry a specify function was called with
E == acs[1]

\* a match of the candidate at position k: it carries the index of the
\* candidate, the order and the quality of the entry, and the bits
Match(k, bits) == Entry([i |-> k - 1, o |-> E.i, q |-> E.q, s |-> bits])

\* the candidate at position k of a mediaTypeSpecify call, reparsed
Candidate(k) == parseMediaType(provided[k], k - 1).e

TypesEqual(k) == ToLower(E.mainType) = ToLower(Candidate(k).mainType)

SubtypesEqual(k) == ToLower(E.subtype) = ToLower(Candidate(k).subtype)

\* every parameter of the entry is "*" or the value the candidate has for the
\* key, a key the candidate lacks standing for the empty string
ParamsAgree(k) ==
    \A key \in DOMAIN E.params :
        \/ E.params[key] = "*"
        \/ ToLower(E.params[key])
               = (IF key \in DOMAIN Candidate(k).params
                  THEN ToLower(Candidate(k).params[key]) ELSE "")

\* C24: mediaTypeSpecify(candidate, E) is no match if the types differ and
\* E.type is not "*", or the subtypes differ and E.subtype is not "*", or E has
\* parameters and one of them neither is "*" nor equals the candidate's value;
\* otherwise it is a match whose bits are 4 for equal types plus 2 for equal
\* subtypes plus 1 if E has parameters, with E's order and quality and the
\* candidate's index.
C24_MediaTypeSpecifyRule ==
    fn = "mediaTypeSpecify" =>
        \A k \in 1..Len(provided) :
            priorities[k] =
                IF \/ ~TypesEqual(k) /\ E.mainType # "*"
                   \/ ~SubtypesEqual(k) /\ E.subtype # "*"
                   \/ DOMAIN E.params # {} /\ ~ParamsAgree(k)
                THEN Nil
                ELSE Match(k, (IF TypesEqual(k) THEN 4 ELSE 0)
                                  + (IF SubtypesEqual(k) THEN 2 ELSE 0)
                                  + (IF DOMAIN E.params # {} THEN 1 ELSE 0))

\* an entry with parameters and quality 0.5 at order 1: the first candidate
\* has its type and subtype but not its parameters, the second candidate
\* matches it with all three bits
C24_Witness ==
    /\ fn = "mediaTypeSpecify"
    /\ Len(provided) = 2
    /\ DOMAIN E.params # {} /\ E.i = 1 /\ E.q = QUnit \div 2
    /\ TypesEqual(1) /\ SubtypesEqual(1) /\ priorities[1] = Nil
    /\ priorities[2] = Match(2, 7)

\* the candidate at position k of a languageSpecify call, reparsed
Tag(k) == parseLanguage(provided[k], k - 1)

\* C25: languageSpecify(candidate, E), for a candidate that reparses: bits 4
\* if E.full equals candidate.full, else 2 if E.primary equals candidate.full,
\* else 1 if E.full equals candidate.primary, else 0 if E.full is "*", else no
\* match; the comparisons ignore case.
C25_LanguageSpecifyRule ==
    fn = "languageSpecify" =>
        \A k \in 1..Len(provided) :
            Tag(k).st = "ok" =>
                priorities[k] =
                    IF ToLower(E.full) = ToLower(Tag(k).e.full) THEN Match(k, 4)
                    ELSE IF ToLower(E.prefix) = ToLower(Tag(k).e.full) THEN Match(k, 2)
                    ELSE IF ToLower(E.full) = ToLower(Tag(k).e.prefix) THEN Match(k, 1)
                    ELSE IF E.full = "*" THEN Match(k, 0)
                    ELSE Nil

\* the first rule wins where the second applies as well (entry en, candidate
\* EN), and a candidate of another language does not match
C25_Witness ==
    /\ fn = "languageSpecify"
    /\ Len(provided) = 2
    /\ Tag(1).st = "ok" /\ Tag(2).st = "ok"
    /\ E.full # Tag(1).e.full
    /\ ToLower(E.prefix) = ToLower(Tag(1).e.full)
    /\ priorities[1] = Match(1, 4)
    /\ priorities[2] = Nil

\* the entry has no extension and the candidate is its tag with an extension
BroadEntry(k) ==
    /\ Tag(k).st = "ok"
    /\ E.suffix = "" /\ E.full # "*"
    /\ Tag(k).e.suffix # ""
    /\ ToLower(Tag(k).e.prefix) = ToLower(E.full)

\* the entry has an extension and the candidate is its bare primary tag
NarrowEntry(k) ==
    /\ Tag(k).st = "ok"
    /\ E.suffix # ""
    /\ Tag(k).e.suffix = ""
    /\ ToLower(Tag(k).e.full) = ToLower(E.prefix)

\* C26 (as stated): a broad entry matches the candidate with an extension with
\* bits 2, a narrow entry matches the bare candidate with bits 1.
C26_CrossMatchAsStated ==
    fn = "languageSpecify" =>
        \A k \in 1..Len(provided) :
            /\ BroadEntry(k) => priorities[k] = Match(k, 2)
            /\ NarrowEntry(k) => priorities[k] = Match(k, 1)

\* C26: a broad entry (en) matches the candidate with an extension (en-US)
\* with bits 1, a narrow entry (en-US) matches the bare candidate (en) with
\* bits 2.
C26_CrossMatch ==
    fn = "languageSpecify" =>
        \A k \in 1..Len(provided) :
            /\ BroadEntry(k) => priorities[k] = Match(k, 1)
            /\ NarrowEntry(k) => priorities[k] = Match(k, 2)

\* the narrow entry en-US called with the candidates en and en-us
C26_Witness ==
    /\ fn = "languageSpecify"
    /\ Len(provided) = 2
    /\ NarrowEntry(1) /\ priorities[1].st = "ok"
    /\ ~NarrowEntry(2) /\ priorities[2] = Match(2, 4)

\* the value of the entry of a charsetSpecify or encodingSpecify call
EntryValue == IF fn = "charsetSpecify" THEN E.charset ELSE E.encoding

\* C27: charsetSpecify and encodingSpecify match the candidate with bits 1 if
\* the value of E equals it ignoring case, with bits 0 if it does not and the
\* value of E is "*", and not otherwise; a match carries E's order and quality
\* and the candidate's index.
C27_SimpleSpecifyRule ==
    fn \in {"charsetSpecify", "encodingSpecify"} =>
        \A k \in 1..Len(provided) :
            priorities[k] =
                IF ToLower(EntryValue) = ToLower(provided[k]) THEN Match(k, 1)
                ELSE IF EntryValue = "*" THEN Match(k, 0)
                ELSE Nil

\* the entry "*" with quality 0.5 at order 1, the candidate "*" matching it
\* with bits 1 and another candidate after it with bits 0
C27_Witness ==
    /\ fn = "charsetSpecify"
    /\ Len(provided) = 2
    /\ EntryValue = "*" /\ E.i = 1 /\ E.q = QUnit \div 2
    /\ provided[1] = "*" /\ priorities[1] = Match(1, 1)
    /\ provided[2] # "*" /\ priorities[2] = Match(2, 0)

-----------------------------------------------------------------------------
(* Splitting and parsing media types                                       *)

\* the commas of the input that an even number of double quotes precedes
Cuts ==
    {c \in 1..Len(accept) :
        Char(accept, c) = "," /\ quoteCount(SubSeq(accept, 1, c - 1)) % 2 = 0}

\* the k-th of them, the end of the input standing for the one after the last
Cut(k) ==
    IF k = 0 THEN 0
    ELSE IF k > Cardinality(Cuts) THEN Len(accept) + 1
    ELSE CHOOSE c \in Cuts : Cardinality({d \in Cuts : d < c}) = k - 1

\* C28: splitMediaTypes(s) returns the pieces of s between the commas that an
\* even number of double quotes precedes; joined with "," they are s, and
\* after a quote that is never closed nothing is split.
C28_SplitOutsideQuotes ==
    fn = "splitMediaTypes" =>
        /\ result = [k \in 1..(Cardinality(Cuts) + 1) |->
                        SubSeq(accept, Cut(k - 1) + 1, Cut(k) - 1)]
        /\ Join(result, ",") = accept
        /\ quoteCount(accept) % 2 = 1 =>
               /\ quoteCount(result[Len(result)]) % 2 = 1
               /\ \A k \in 1..(Len(result) - 1) : quoteCount(result[k]) % 2 = 0

\* an input split at its comma outside quotes and not at its comma between
\* two quotes
C28_Witness ==
    /\ fn = "splitMediaTypes"
    /\ Len(result) = 2
    /\ quoteCount(result[1]) = 0
    /\ quoteCount(result[2]) = 2
    /\ \E c \in 1..Len(result[2]) : Char(result[2], c) = ","

\* the parameters of the segment other than q, as written: the keys in lower
\* case (the segments of ParamSegs hold no quote and no space)
Written ==
    LET parts == Split(accept, ";")
        pairs == {Split(parts[k], "=") : k \in 2..Len(parts)}
        others == {kv \in pairs : ToLower(kv[1]) # "q"}
    IN  [key \in {ToLower(kv[1]) : kv \in others} |->
            (CHOOSE kv \in others : ToLower(kv[1]) = key)[2]]

\* C29: the entry parseMediaType makes of a segment holds every parameter of
\* the segment other than q, under its key in lower case, wherever the
\* parameter stands relative to q.
C29_ParametersRetained ==
    (fn = "parseMediaType" /\ acs # <<>>) => E.params = Written

-----------------------------------------------------------------------------
(* The header value a Negotiator negotiates                                *)

\* the name of the header the method reads
HeaderName ==
    CASE fn = "Charsets"   -> HeaderAcceptCharset
      [] fn = "Encodings"  -> HeaderAcceptEncoding
      [] fn = "Languages"  -> HeaderAcceptLanguage
      [] fn = "MediaTypes" -> HeaderAccept

\* the keys of the header source that spell the name, in any case
Spellings == {k \in DOMAIN Header.m : ToLower(k) = ToLower(HeaderName)}

\* an empty negotiated value gives an empty result for charset, language and
\* media type
EmptyValueEmptyResult ==
    (accept = "" /\ fn # "Encodings" /\ ~panicked) => result = <<>>

\* C30 (as stated): the negotiated value is the ","-join of the values stored
\* for the header under any spelling of its name, and the default only if
\* there is none.
C30_JoinedAnySpelling ==
    fn \in {"Charsets", "Encodings", "Languages", "MediaTypes"} =>
        /\ accept = IF Spellings # {}
                    THEN Join(Header.m[CHOOSE k \in Spellings : TRUE], ",")
                    ELSE DefaultOf
        /\ EmptyValueEmptyResult

\* C30: the negotiated value is the ","-join of the values stored under the
\* canonical form of the header name, and the default only if the header
\* source has no such key; a header stored with an empty value is negotiated
\* as the empty string.
C30_JoinedCanonical ==
    fn \in {"Charsets", "Encodings", "Languages", "MediaTypes"} =>
        /\ accept = IF HeaderName \in DOMAIN Header.m
                    THEN Join(Header.m[HeaderName], ",")
                    ELSE DefaultOf
        /\ EmptyValueEmptyResult

\* Charsets called with candidates on a header source that stores
\* Accept-Charset with one empty value
C30_Witness ==
    /\ fn = "Charsets"
    /\ HeaderName \in DOMAIN Header.m
    /\ Header.m[HeaderName] = <<"">>
    /\ provided # <<>>
    /\ accept = ""
    /\ result = <<>>

====
